---- MODULE Spec2Model ----
(***************************************************************************)
(* Model of the pagination engine of the newsdata client:                  *)
(*   NewsService.Stream / NewsService.Get        (src/values.go)           *)
(*   newRequestParams                            (src/unnamed/part_010)    *)
(*   NewsdataClient.fetch                        (src/unnamed/part_011)    *)
(* and, each under a specification of its own, the other operations:      *)
(*   SourcesService.Get                          (src/unnamed/part_015)    *)
(*   streamArticles / fetchArticles              (src/newsdata.go)         *)
(*   baseClient.fetchArticles, LimitResultsToFirst (src/newsdata.go)       *)
(*   the request options                         (src/unnamed/part_010)    *)
(*   Validate of the date ranges                 (src/services.go)         *)
(*   Tags / SentimentStats decoding              (src/helpers.go)          *)
(*   generateArticles / fetchArticles            (src/unnamed/part_013)    *)
(*   processArticles / fetchArticles             (src/unnamed/part_014)    *)
(*   the SourceRequest builder                   (src/request.go)          *)
(*   StreamArticles / GetArticles                (src/unnamed/part_012)    *)
(* The server is a finite list of pages.  The items it holds are numbered  *)
(* 1..NumItems in server order, page by page.  The producer goroutine of   *)
(* Stream and its consumer (Get, or a caller ranging over the article      *)
(* channel) are two processes that meet on the unbuffered channel `out`.   *)
(* The range variable of Stream's item loop is taken to be per-iteration   *)
(* (Go 1.22 semantics), so that a delivered pointer denotes one item.      *)
(***************************************************************************)
EXTENDS Integers, Sequences, FiniteSets, TLC

\* ---------------------------------------------------------------- bounds
MaxPages == 3
MaxItems == 3

Queries == {"", "ai"}
Modes == {"get", "stream"}
FailKinds == {"transport", "http", "decode"}

\* ------------------------------------------------- errors (wrap chains)
\* An error is the chain of its wrappers, outermost first; nil is <<>>.
NilErr == <<>>
Canceled == "context canceled"

ErrorsIs(err, target) == \E i \in 1..Len(err) : err[i] = target

Wrap(msg, err) == <<msg>> \o err

\* NewsdataClient.fetch: the error of httpClient.Do, of a non-200 status
\* (carrying results.message) ; NewsService.fetch: its own wrappers.
\* mutant: the message of the error body is dropped
ClientFetchErr_NoMessage(kind) ==
  CASE kind = "transport" -> Wrap("fetch - error executing request", <<"transport">>)
    [] kind = "canceled"  -> Wrap("fetch - error executing request", <<Canceled>>)
    [] kind = "http"      -> Wrap("fetch - error reading response body", <<"unexpected status">>)
ClientFetchErr(kind) ==
  CASE kind = "transport" -> Wrap("fetch - error executing request", <<"transport">>)
    [] kind = "canceled"  -> Wrap("fetch - error executing request", <<Canceled>>)
    [] kind = "http"      -> Wrap("fetch - error reading response body", <<"rate limited">>)

ServiceFetchErr(kind) ==
  IF kind = "decode"
    THEN Wrap("fetchNews - error unmarshalling news response", <<"json">>)
    ELSE Wrap("fetchNews - error fetching news", ClientFetchErr(kind))

StreamFetchErr(kind) == Wrap("newsdata: Stream", ServiceFetchErr(kind))

StreamCtxDoneErr == Wrap("newsdata: Stream - context done", <<Canceled>>)

\* ------------------------------------------------------------ variables
VARIABLES
  sizes,          \* server: number of items of each page
  totalResults,   \* server: the totalResults it reports
  query,          \* argument of Stream / Get
  mode,           \* who consumes: Get, or a caller of Stream
  maxResults,     \* argument of Get
  ctxDone,        \* ctx.Done() of the context handed to Stream is closed
  pc,             \* producer goroutine: position
  reqParams,      \* producer: the requestParams map
  res,            \* producer: the decoded newsResponse (or NoRes)
  idx,            \* producer: position of the range loop in res.Articles
  articlesCount,  \* producer: articlesCount
  errChan,        \* content of the buffered error channel (cap 1)
  errLog,         \* every error ever sent on the error channel, in order
  errCloses,      \* number of close(errChan)
  outCloses,      \* number of close(out)
  gpc,            \* consumer: position
  articles,       \* consumer: items received so far, in order
  ret,            \* what Get returned (or what the caller saw at the end)
  requests,       \* server log: parameter map of every request received
  responses,      \* server log: number and nextPage of every page answered
  failed,         \* wrap chain of the fetch failure that happened, or <<>>
  exitWhy,        \* which return of the producer was taken
  cancelInfo      \* snapshot taken when the caller cancels the context

\* SourcesService.Get (src/unnamed/part_015)
VARIABLES
  srcServer,      \* server: the body it answers the sources endpoint with
  srcPc,          \* position of the call
  srcBody,        \* body returned by s.client.fetch (or NoBody)
  srcFetches,     \* number of calls of s.client.fetch
  srcDecodes,     \* number of calls of json.Unmarshal
  srcRet          \* the returned ([]*Source, error)

\* NewsdataClient.streamArticles / fetchArticles (src/newsdata.go)
VARIABLES
  saMode,         \* who calls: fetchArticles, a Stream*News caller, AdvancedSearch
  saValid,        \* query.validate() returns nil
  saMax,          \* maxResults
  saPc,           \* goroutine of streamArticles: position
  saPage,         \* page
  saIndex,        \* index
  saRes,          \* res
  saIdx,          \* position of the range loop in res.Articles
  saErr,          \* the error being sent on errChan
  saErrCloses,    \* number of close(errChan)
  saOutCloses,    \* number of close(out)
  saGpc,          \* caller: position
  saArticles,     \* caller: articles received, in order
  saRet,          \* what the caller got in the end
  saRequests,     \* server log: parameter map of every request received
  saFailed,       \* the error of the fetch that failed, or <<>>
  saExit          \* which return of the goroutine was taken

\* baseClient.fetchArticles, newsdataClient.LimitResultsToFirst (src/newsdata.go)
VARIABLES
  bcMaxResults,   \* the client's maxResults field
  bcLimitErr,     \* LimitResultsToFirst returned an error
  bcPc,           \* position of the search
  bcMax,          \* fetchArticles: maxResults
  bcPage,         \* fetchArticles: page
  bcArticles,     \* fetchArticles: *articles
  bcRet,          \* the returned (*[]article, error)
  bcRequests     \* server log: parameter map of every request received

\* newRequestParams and the request options (src/unnamed/part_010)
VARIABLES
  optP,           \* p, the requestParams map being built
  optApplied,     \* number of options applied so far
  optLast        \* the option applied last

\* CryptoQueryParams.Validate, ArchiveQueryParams.Validate, AdvancedSearch (src/services.go)
VARIABLES
  vdKind,         \* the parameter type validated
  vdFieldsOk,     \* the fields other than From and To pass their tests
  vdFrom,         \* p.From
  vdTo,           \* p.To
  vdNow,          \* time.Now()
  vdPc,           \* position of AdvancedSearch
  vdErr          \* the error returned by Validate

\* Tags.UnmarshalJSON, SentimentStats.UnmarshalJSON (src/helpers.go)
VARIABLES
  dcField,        \* the type of the field being decoded
  dcDoc,          \* the JSON value the server sent for it
  dcPc,           \* raw or decoded
  dcOut          \* the decoded value and the error

\* generateArticles / fetchArticles (src/unnamed/part_013)
VARIABLES
  gaValid,        \* query.validate() returns nil
  gaMax,          \* maxResults
  gaPc,           \* goroutine of generateArticles: position
  gaPage,         \* page
  gaIndex,        \* index
  gaRes,          \* res
  gaIdx,          \* position of the range loop in res.Articles
  gaErr,          \* the error being sent on errChan
  gaErrCloses,    \* number of close(errChan)
  gaOutCloses,    \* number of close(out)
  gaRequests,     \* number of requests the server received
  gaFailed,       \* the error the generator reported, or <<>>
  gaDpc,          \* goroutine that ranges over errChan: position
  gaRecv,         \* its range variable err
  gaGenErr,       \* generationError
  gaCpc,          \* fetchArticles: position
  gaArticles,     \* Articles
  gaRet          \* what fetchArticles returned

\* processArticles / fetchArticles (src/unnamed/part_014)
VARIABLES
  paMode,         \* who calls processArticles: fetchArticles, or Process*News with an action that can fail
  paMax0,         \* maxResults of the caller
  paMax,          \* maxResults of processArticles
  paPc,           \* processArticles: position
  paPage,         \* page
  paNb,           \* nbArticles
  paRes,          \* res of the current iteration
  paBatch,        \* batchInfos, shared by the loop and every goroutine
  paTasks,        \* the goroutines started, one per batch
  paCalls,        \* log: the invocations of action, in the order they happened
  paErrLen,       \* len(errChan)
  paArticles,     \* *Articles.articles
  paRet,          \* what the caller got in the end
  paServed       \* the items of the pages answered so far, in order

\* SourceRequest builder (src/request.go)
VARIABLES
  sbP,            \* req.params
  sbApplied,      \* number of With... calls made
  sbLast         \* the last call: parameter, argument, req.params before it

\* StreamArticles / GetArticles (src/unnamed/part_012)
VARIABLES
  arQuery,        \* the query given to NewArticleRequest
  arMax0,         \* maxResults given to GetArticles
  arParams,       \* req.params: one map, shared by the caller's req and every copy of it
  arRun,          \* which of the two successive GetArticles(req, maxResults) is running
  arPc,           \* goroutine of StreamArticles: position
  arMax,          \* its maxResults
  arPage,         \* page
  arIndex,        \* index
  arRes,          \* res
  arIdx,          \* position of the range loop in res.Articles
  arErr,          \* the error being sent on errChan
  arNreq,         \* number of requests of the current run
  arGpc,          \* GetArticles: position
  arArticles,     \* articles
  arRets,         \* what each finished GetArticles returned
  arFirst        \* server log: the parameters of the first request of each run

streamVars == <<sizes, totalResults, query, mode, maxResults, ctxDone, pc,
          reqParams, res, idx, articlesCount, errChan, errLog, errCloses,
          outCloses, gpc, articles, ret, requests, responses, failed, exitWhy,
          cancelInfo>>

sourcesVars == <<srcServer, srcPc, srcBody, srcFetches, srcDecodes, srcRet>>

articlesVars == <<saMode, saValid, saMax, saPc, saPage, saIndex, saRes, saIdx,
                  saErr, saErrCloses, saOutCloses, saGpc, saArticles, saRet,
                  saRequests, saFailed, saExit>>

limitVars == <<bcMaxResults, bcLimitErr, bcPc, bcMax, bcPage,
               bcArticles, bcRet, bcRequests>>

optionVars == <<optP, optApplied, optLast>>

validateVars == <<vdKind, vdFieldsOk, vdFrom, vdTo, vdNow, vdPc,
                  vdErr>>

decodeVars == <<dcField, dcDoc, dcPc, dcOut>>

generateVars == <<gaValid, gaMax, gaPc, gaPage, gaIndex, gaRes,
                  gaIdx, gaErr, gaErrCloses, gaOutCloses, gaRequests, gaFailed,
                  gaDpc, gaRecv, gaGenErr, gaCpc, gaArticles, gaRet>>

processVars == <<paMode, paMax0, paMax, paPc, paPage, paNb, paRes,
                 paBatch, paTasks, paCalls, paErrLen, paArticles, paRet, paServed>>

builderVars == <<sbP, sbApplied, sbLast>>

requestVars == <<arQuery, arMax0, arParams, arRun, arPc, arMax,
                 arPage, arIndex, arRes, arIdx, arErr, arNreq, arGpc, arArticles,
                 arRets, arFirst>>

\* the variables of the operations other than Stream and Get
otherVars == <<sourcesVars, articlesVars, limitVars, optionVars,
               validateVars, decodeVars, generateVars, processVars,
               builderVars, requestVars>>

\* everything but the variables of one operation
notSources == <<streamVars, articlesVars, limitVars, optionVars,
                validateVars, decodeVars, generateVars, processVars,
                builderVars, requestVars>>
notArticles == <<streamVars, sourcesVars, limitVars, optionVars,
                 validateVars, decodeVars, generateVars, processVars,
                 builderVars, requestVars>>
notLimit == <<streamVars, sourcesVars, articlesVars, optionVars,
              validateVars, decodeVars, generateVars, processVars,
              builderVars, requestVars>>
notOption == <<streamVars, sourcesVars, articlesVars, limitVars,
               validateVars, decodeVars, generateVars, processVars,
               builderVars, requestVars>>
notValidate == <<streamVars, sourcesVars, articlesVars, limitVars,
                 optionVars, decodeVars, generateVars, processVars,
                 builderVars, requestVars>>
notDecode == <<streamVars, sourcesVars, articlesVars, limitVars, optionVars,
               validateVars, generateVars, processVars, builderVars,
               requestVars>>
notGenerate == <<streamVars, sourcesVars, articlesVars, limitVars,
                 optionVars, validateVars, decodeVars, processVars,
                 builderVars, requestVars>>
notProcess == <<streamVars, sourcesVars, articlesVars, limitVars, optionVars,
                validateVars, decodeVars, generateVars, builderVars,
                requestVars>>
notBuilder == <<streamVars, sourcesVars, articlesVars, limitVars, optionVars,
                validateVars, decodeVars, generateVars, processVars,
                requestVars>>
notRequest == <<streamVars, sourcesVars, articlesVars, limitVars, optionVars,
                validateVars, decodeVars, generateVars, processVars,
                builderVars>>

vars == <<streamVars, otherVars>>

serverVars == <<sizes, totalResults, query, mode, maxResults>>

\* --------------------------------------------------------------- server
NoRes == [status |-> "none", totalResults |-> 0, items |-> <<>>, nextPage |-> ""]
\* a returned ([]*NewsArticle, error): isNil tells the nil slice from an empty one
NoRet == [isNil |-> TRUE, articles |-> <<>>, err |-> NilErr]
NoCancel == [at |-> "none", nreq |-> 0, nrecv |-> 0]

NPages == Len(sizes)

RECURSIVE Offset(_)
\* number of items held by the pages before page k
Offset(k) == IF k <= 1 THEN 0 ELSE Offset(k - 1) + sizes[k - 1]

NumItems == Offset(NPages + 1)

Token(k) == "tok" \o ToString(k)

PageItems(k) == [i \in 1..sizes[k] |-> Offset(k) + i]

\* the page a request asks for: page 1 without a page parameter, 0 if the
\* token is not one the server handed out
PageAsked(params) ==
  IF "page" \notin DOMAIN params THEN 1
  ELSE IF \E k \in 2..NPages : Token(k) = params["page"]
       THEN CHOOSE k \in 2..NPages : Token(k) = params["page"]
       ELSE 0

ServerPage(k) ==
  [status |-> "success", totalResults |-> totalResults, items |-> PageItems(k),
   nextPage |-> IF k < NPages THEN Token(k + 1) ELSE ""]

\* the first n items of the server, in server order
FirstItems(n) == [i \in 1..n |-> i]

\* --------------------------------------------------------- pure helpers
\* newRequestParams with an empty option list (endpoint is a news one)
newRequestParams(q) ==
  IF q # "" THEN [k \in {"q"} |-> q] ELSE [k \in {} |-> ""]

\* mutant: the token is stored under the key of the response field
SetPage_WrongKey(params, next) ==
  [k \in DOMAIN params \cup {"nextPage"} |-> IF k = "nextPage" THEN next ELSE params[k]]

\* mutant: the map is rebuilt with the token alone
SetPage_DropsOthers(params, next) == [k \in {"page"} |-> next]

\* reqParams["page"] = res.NextPage
SetPage(params, next) ==
  [k \in DOMAIN params \cup {"page"} |-> IF k = "page" THEN next ELSE params[k]]

\* mutant: the range loop walks the page backwards
RangeArticle_Reversed(r, i) == r.items[Len(r.items) + 1 - i]

\* the article the range loop hands over at position i
RangeArticle(r, i) == r.items[i]

\* mutant: nextPage is never followed
EndOfPage_NoFollow(count, r) ==
  IF count = r.totalResults THEN "total" ELSE "lastPage"

\* mutant: an empty nextPage is followed like any other
EndOfPage_AlwaysFollow(count, r) ==
  IF count = r.totalResults THEN "total" ELSE "continue"

\* mutant: once an article has been emitted, nextPage is not followed
EndOfPage_StopAfterItems(count, r) ==
  IF count = r.totalResults THEN "total"
  ELSE IF r.nextPage # "" /\ count = 0 THEN "continue"
  ELSE "lastPage"

\* mutant: a page without items is taken for the last one
EndOfPage_StopOnEmpty(count, r) ==
  IF count = r.totalResults THEN "total"
  ELSE IF r.nextPage # "" /\ Len(r.items) > 0 THEN "continue"
  ELSE "lastPage"
\* the tail of Stream's loop body: which return is taken, or "continue"
EndOfPage(count, r) ==
  IF count = r.totalResults THEN "total"
  ELSE IF r.nextPage # "" THEN "continue"
  ELSE "lastPage"

\* mutant: the cap is noticed one article late
CapReached_Late(n, max) == max > 0 /\ n = max + 1

\* Get: maxResults > 0 && len(articles) == maxResults
CapReached(n, max) == max > 0 /\ n = max

\* mutant: the error channel is not looked at
GetSelect_NoErr(ech, closes, arts) ==
  [isNil |-> FALSE, articles |-> arts, err |-> NilErr]

\* Get: the select on errChan after the range loop
GetSelect(ech, closes, arts) ==
  IF ech # <<>> THEN [isNil |-> TRUE, articles |-> <<>>, err |-> ech[1]]
  ELSE IF closes > 0 THEN [isNil |-> TRUE, articles |-> <<>>, err |-> NilErr]
  ELSE [isNil |-> FALSE, articles |-> arts, err |-> NilErr]

\* ------------------------------------------------------- page layouts
RECURSIVE SeqsUpTo(_, _)
SeqsUpTo(S, n) ==
  IF n = 0 THEN {<<>>}
  ELSE LET shorter == SeqsUpTo(S, n - 1)
       IN shorter \cup {Append(s, x) : s \in {t \in shorter : Len(t) = n - 1}, x \in S}

RECURSIVE SumSeq(_)
SumSeq(s) == IF s = <<>> THEN 0 ELSE Head(s) + SumSeq(Tail(s))

\* the page layouts: 1..MaxPages pages, empty ones included, that hold
\* at most MaxItems items together
Layouts ==
  {s \in SeqsUpTo(0..MaxItems, MaxPages) \ {<<>>} : SumSeq(s) <= MaxItems}

\* ------------------------------------------------ SourcesService.Get
MaxSources == 3

NoBody == [status |-> "none", totalResults |-> 0, sources |-> <<>>,
           nextPage |-> "", wellFormed |-> TRUE]

\* the answers of the sources endpoint: a list of sources, a totalResults
\* that need not be its length, and possibly a nextPage field
SourcesBodies ==
  [status : {"success"}, totalResults : 0..(MaxSources + 1),
   sources : {FirstItems(n) : n \in 0..MaxSources},
   nextPage : {"", Token(2)}, wellFormed : BOOLEAN]

\* mutant: the list is cut at the reported totalResults
DecodeSources_Capped(body) ==
  SubSeq(body.sources, 1,
         IF body.totalResults < Len(body.sources)
           THEN body.totalResults ELSE Len(body.sources))

\* json.Unmarshal into sourcesResponse, then the loop that appends &resSources[i]
DecodeSources(body) == body.sources

GetSourcesFetchErr(kind) ==
  Wrap("newsdata: getSources - error fetching sources", ClientFetchErr(kind))

GetSourcesDecodeErr ==
  Wrap("newsdata: getSources - error unmarshalling sources response", <<"json">>)

NoSourcesRet == [isNil |-> TRUE, sources |-> <<>>, err |-> NilErr]

SourcesIdle ==
  /\ srcServer = NoBody
  /\ srcPc = "idle"
  /\ srcBody = NoBody
  /\ srcFetches = 0
  /\ srcDecodes = 0
  /\ srcRet = NoSourcesRet

\* ------------------------------- streamArticles / fetchArticles
MaxRequests == 4

\* "drain": a caller of Stream*News that ranges over the article channel
\* until it is closed and only then receives from the error channel
ArticlesModes == {"fetchArticles", "stream", "drain", "advanced"}

ValidationErr == <<"validation">>

\* the errors of the older fetch / fetchNews: formatted with %s, no chain
ArticlesFetchErr(kind) ==
  CASE kind = "transport" -> <<"transport - url">>
    [] kind = "http"      -> <<"rate limited - url">>
    [] kind = "decode"    -> <<"json">>

\* query.setPage(page), then structToMap, which leaves out a zero field
PagedQuery(page) ==
  IF page # "" THEN [k \in {"page"} |-> page] ELSE [k \in {} |-> ""]

\* mutant: the result of validate() is not looked at
AfterValidate_Ignored(valid) == "fetch"

\* if err := query.validate(); err != nil { errChan <- err; return }
AfterValidate(valid) == IF valid THEN "fetch" ELSE "sendErr"

ArticlesIdle ==
  /\ saMode = "fetchArticles" /\ saValid = TRUE /\ saMax = 0 /\ saPc = "idle"
  /\ saPage = "" /\ saIndex = 0 /\ saRes = NoRes /\ saIdx = 0 /\ saErr = NilErr
  /\ saErrCloses = 0 /\ saOutCloses = 0 /\ saGpc = "idle" /\ saArticles = <<>>
  /\ saRet = NoRet /\ saRequests = <<>> /\ saFailed = NilErr /\ saExit = "none"

\* ------------------------------------------ baseClient.fetchArticles
\* the arguments callers give to LimitResultsToFirst
LimitArgs == (0 - 1)..(MaxItems + 1)

\* mutant: the collected articles are returned untrimmed
TrimArticles_Missing(arts, max) == arts

\* if len(*articles) > maxResults { *articles = (*articles)[:maxResults] }
TrimArticles(arts, max) == IF Len(arts) > max THEN SubSeq(arts, 1, max) ELSE arts

\* for len(*articles) < maxResults || maxResults == 0
LoopAgain(n, max) == n < max \/ max = 0

\* if maxResults == 0 || res.TotalResults < maxResults { maxResults = res.TotalResults }
LowerMax(max, total) == IF max = 0 \/ total < max THEN total ELSE max

LimitIdle ==
  /\ bcMaxResults = 0 /\ bcLimitErr = FALSE /\ bcPc = "off" /\ bcMax = 0
  /\ bcPage = "" /\ bcArticles = <<>> /\ bcRet = NoRet /\ bcRequests = <<>>

\* ------------------------------------- request options (part_010)
MaxOptions == 2
MaxArgs == 6
MaxQueryLen == 512
MaxListed == 5

\* the queries handed to the options, and their length
OptionQueries == {"", "ai", "long"}
QueryLen(q) == CASE q = "" -> 0 [] q = "ai" -> 2 [] q = "long" -> MaxQueryLen + 1
                 [] OTHER -> MaxQueryLen

\* samples of the allow-lists of values.go, and a value outside each
allowedCategories == {"business"}
allowedCountries == {"fr"}
allowedLanguages == {"en"}

CategoryArgs == SeqsUpTo({"business", "bogus"}, MaxArgs)
CountryArgs == SeqsUpTo({"fr", "zz"}, MaxArgs)
LanguageArgs == SeqsUpTo({"en", "xx"}, MaxArgs)

\* p[key], which is "" for a key the map does not hold
ParamStr(p, key) == IF key \in DOMAIN p THEN p[key] ELSE ""
\* the values of a comma-joined parameter; none for "" and for no key
ParamList(p, key) == IF key \in DOMAIN p THEN p[key] ELSE <<>>

\* p[key] = value
SetParam(p, key, value) ==
  [k \in DOMAIN p \cup {key} |-> IF k = key THEN value ELSE p[k]]

\* delete(p, key) for each key of keys
DeleteParams(p, keys) == [k \in DOMAIN p \ keys |-> p[k]]

\* query = query[:512] when len(query) > 512
Truncate512(q) == IF QueryLen(q) > MaxQueryLen THEN "long[:512]" ELSE q

\* mutant: the other query parameters are kept
WithQueryInTitle_KeepsOthers(p, q) == SetParam(p, "qInTitle", Truncate512(q))

WithQueryInTitle(p, q) ==
  LET p1 == IF ParamStr(p, "qInMeta") # "" \/ ParamStr(p, "q") # ""
              THEN DeleteParams(p, {"qInMeta", "q"}) ELSE p
  IN SetParam(p1, "qInTitle", Truncate512(q))

WithQueryInMetadata(p, q) ==
  LET p1 == IF ParamStr(p, "qInTitle") # "" \/ ParamStr(p, "q") # ""
              THEN DeleteParams(p, {"qInTitle", "q"}) ELSE p
  IN SetParam(p1, "qInMeta", Truncate512(q))

\* the filter keeps the allowed values; the truncation to 5 is applied to
\* the parameter `categories`, which is not what is returned
validateCategories(categories) ==
  LET safeCategories == SelectSeq(categories, LAMBDA c : c \in allowedCategories)
      truncated == IF Len(safeCategories) > MaxListed
                     THEN SubSeq(categories, 1, MaxListed) ELSE categories
  IN safeCategories

validateCountries(countries) ==
  LET safeCountries == SelectSeq(countries, LAMBDA c : c \in allowedCountries)
      truncated == IF Len(safeCountries) > MaxListed
                     THEN SubSeq(countries, 1, MaxListed) ELSE countries
  IN safeCountries

validateLanguages(languages) ==
  LET safeLanguages == SelectSeq(languages, LAMBDA c : c \in allowedLanguages)
      truncated == IF Len(safeLanguages) > MaxListed
                     THEN SubSeq(languages, 1, MaxListed) ELSE languages
  IN safeLanguages

WithCategories(p, categories) ==
  IF Len(categories) = 0 THEN p
  ELSE IF ParamList(p, "excludecategory") # <<>> THEN p
  ELSE SetParam(p, "category", validateCategories(categories))

WithCategoriesExlucded(p, categories) ==
  IF Len(categories) = 0 THEN p
  ELSE IF ParamList(p, "category") # <<>> THEN p
  ELSE SetParam(p, "excludecategory", validateCategories(categories))

WithCountries(p, countries) ==
  IF Len(countries) = 0 THEN p
  ELSE SetParam(p, "country", validateCountries(countries))

WithLanguages(p, languages) ==
  IF Len(languages) = 0 THEN p
  ELSE SetParam(p, "language", validateLanguages(languages))

OptionsIdle == optP = newRequestParams("") /\ optApplied = 0 /\ optLast = "off"

\* ------------------------- Validate of the date ranges (services.go)
MaxTime == 3

\* instants: 0 is the zero time.Time, the others are ordered as numbered
Times == 0..MaxTime

ParamsKinds == {"CryptoQueryParams", "ArchiveQueryParams"}

\* DateTime.IsZero, DateTime.After
IsZero(t) == t = 0
After(t, u) == t > u

\* the two date tests that end Validate
ValidateDates(from, to, now) ==
  IF IsZero(from) /\ After(from, now) THEN <<"From date must be in the past">>
  ELSE IF IsZero(to) /\ After(to, now) THEN <<"To date must be in the past">>
  ELSE NilErr

\* Validate: the tests on the other fields, then the dates
Validate(fieldsOk, from, to, now) ==
  IF ~fieldsOk THEN <<"invalid parameter">> ELSE ValidateDates(from, to, now)

ValidateIdle ==
  /\ vdKind = "ArchiveQueryParams" /\ vdFieldsOk = TRUE /\ vdFrom = 0 /\ vdTo = 0
  /\ vdNow = 1 /\ vdPc = "off" /\ vdErr = NilErr

\* ---------------------------------- response decoding (helpers.go)
MaxTags == 3

TagNames == {"politics", "sports"}
StatKeys == {"positive", "neutral", "negative"}

\* a text is the sequence of its pieces; the pieces that matter to the
\* decoders (quote, comma, brackets, the restriction prefix) are pieces
\* of their own
Quote == "\""
RestrictionPrefix == "ONLY AVAILABLE IN "
RestrictionText == <<RestrictionPrefix, "PROFESSIONAL AND CORPORATE PLANS">>

RECURSIVE JoinComma(_)
\* the pieces of strs joined by commas
JoinComma(strs) ==
  IF strs = <<>> THEN <<>>
  ELSE IF Len(strs) = 1 THEN Head(strs)
  ELSE Head(strs) \o <<",">> \o JoinComma(Tail(strs))

\* the tag lists a field can carry, each tag a one-piece text
TagLists == {[i \in 1..Len(s) |-> <<s[i]>>] : s \in SeqsUpTo(TagNames, MaxTags)}

\* the JSON values the server can put in a field
JsonDocs ==
  {[kind |-> "null"]}
    \cup {[kind |-> "string", text |-> RestrictionText]}
    \cup {[kind |-> "string", text |-> JoinComma(l)] : l \in TagLists}
    \cup {[kind |-> "array", elems |-> l] : l \in TagLists}
    \cup UNION {{[kind |-> "object", fields |-> f] : f \in [ks -> {0, 1}]} :
                  ks \in SUBSET StatKeys}

\* the raw bytes of a JSON value, as UnmarshalJSON receives them
Bytes(doc) ==
  CASE doc.kind = "null"   -> <<"null">>
    [] doc.kind = "string" -> <<Quote>> \o doc.text \o <<Quote>>
    [] doc.kind = "array"  ->
         <<"[">> \o JoinComma([i \in 1..Len(doc.elems) |->
                                 <<Quote>> \o doc.elems[i] \o <<Quote>>]) \o <<"]">>
    [] doc.kind = "object" -> <<"{", "fields", "}">>

\* strings.HasPrefix(value, prefix), prefix being one piece
HasPrefix(value, prefix) == Len(value) >= 1 /\ value[1] = prefix

RECURSIVE SplitComma(_)
\* strings.Split(value, ",")
SplitComma(value) ==
  IF \A i \in 1..Len(value) : value[i] # "," THEN <<value>>
  ELSE LET c == CHOOSE i \in 1..Len(value) :
                  value[i] = "," /\ \A j \in 1..(i - 1) : value[j] # ","
       IN <<SubSeq(value, 1, c - 1)>> \o SplitComma(SubSeq(value, c + 1, Len(value)))

NilTags == [isNil |-> TRUE, tags |-> <<>>]
ZeroStats == [positive |-> 0, neutral |-> 0, negative |-> 0]

\* Tags.UnmarshalJSON: the decoded value and the error
TagsUnmarshalJSON(b) ==
  IF b = <<"null">> \/ HasPrefix(b, RestrictionPrefix)
    THEN [value |-> NilTags, err |-> NilErr]
    ELSE [value |-> [isNil |-> FALSE, tags |-> SplitComma(b)], err |-> NilErr]

\* SentimentStats.UnmarshalJSON; json.Unmarshal into a string accepts null
\* and strings, json.Unmarshal into map[string]float64 accepts objects
SentimentStatsUnmarshalJSON(doc) ==
  IF doc.kind \in {"null", "string"} THEN [value |-> ZeroStats, err |-> NilErr]
  ELSE IF doc.kind # "object"
    THEN [value |-> ZeroStats,
          err |-> <<"unmarshalSentimentStats - error unmarshalling sentiment stats", "json">>]
  ELSE IF DOMAIN doc.fields # StatKeys
    THEN [value |-> ZeroStats, err |-> <<"invalid sentiment stats">>]
  ELSE [value |-> [positive |-> doc.fields["positive"],
                   neutral |-> doc.fields["neutral"],
                   negative |-> doc.fields["negative"]], err |-> NilErr]

DecodeIdle ==
  /\ dcField = "Tags" /\ dcDoc = [kind |-> "null"] /\ dcPc = "off"
  /\ dcOut = [value |-> NilTags, err |-> NilErr]

\* ------------------- generateArticles / fetchArticles (part_013)
\* the errors of this version's fetch / fetchNews: returned as they come
GenerateFetchErr(kind) ==
  CASE kind = "transport" -> <<"transport">>
    [] kind = "http"      -> <<"rate limited">>
    [] kind = "decode"    -> <<"json">>

\* generationError = err
DrainKeep(old, err) == err

\* if generationError != nil { return nil, generationError }; return &Articles, nil
FetchArticlesReturn(generationError, arts) ==
  IF generationError # NilErr
    THEN [isNil |-> TRUE, articles |-> <<>>, err |-> generationError]
    ELSE [isNil |-> FALSE, articles |-> arts, err |-> NilErr]

GenerateIdle ==
  /\ gaValid = TRUE /\ gaMax = 0 /\ gaPc = "idle" /\ gaPage = "" /\ gaIndex = 0
  /\ gaRes = NoRes /\ gaIdx = 0 /\ gaErr = NilErr /\ gaErrCloses = 0
  /\ gaOutCloses = 0 /\ gaRequests = 0 /\ gaFailed = NilErr /\ gaDpc = "idle"
  /\ gaRecv = NilErr /\ gaGenErr = NilErr /\ gaCpc = "idle" /\ gaArticles = <<>>
  /\ gaRet = NoRet

\* ------------------- processArticles / fetchArticles (part_014)
ProcessModes == {"fetchArticles", "process"}

NoBatch == [Num |-> 0, Size |-> 0, TotalFetched |-> 0, MaxResults |-> 0,
            TotalResults |-> 0]

ActionErr == <<"action">>

\* chanLen: 100, or maxResults when it is positive
ChanLen(max) == IF max > 0 THEN max ELSE 100

\* for nbArticles < maxResults || maxResults == 0
ProcessLoopAgain(nb, max) == nb < max \/ max = 0

\* if maxResults == 0 || res.TotalResults < maxResults { maxResults = res.TotalResults }
ProcessLowerMax(max, total) == IF max = 0 \/ total < max THEN total ELSE max

\* if res.NextPage == "" || nbArticles >= maxResults { break }
ProcessBreak(next, nb, max) == next = "" \/ nb >= max

\* fetchArticles after processArticles: the error, or the trimmed articles
TrimToMax(arts, max) == IF Len(arts) > max THEN SubSeq(arts, 1, max) ELSE arts

ProcessIdle ==
  /\ paMode = "fetchArticles" /\ paMax0 = 0 /\ paMax = 0 /\ paPc = "idle"
  /\ paPage = "" /\ paNb = 0 /\ paRes = NoRes /\ paBatch = NoBatch
  /\ paTasks = <<>> /\ paCalls = <<>> /\ paErrLen = 0 /\ paArticles = <<>>
  /\ paRet = NoRet /\ paServed = <<>>

\* ------------------------------- SourceRequest builder (request.go)
MaxBuilds == 3

\* the allow-lists in the order of values.go, shortened to their first
\* entry and one later entry
CountriesList == <<"af", "fr">>
CategoriesList == <<"business", "technology">>
LanguagesList == <<"af", "fr">>

AllowedList(key) ==
  CASE key = "country"  -> CountriesList
    [] key = "category" -> CategoriesList
    [] key = "language" -> LanguagesList

\* the arguments tried: empty, the entries of the list, one outside of it
BuilderArgs(key) == {"", "zz"} \cup {AllowedList(key)[i] : i \in 1..Len(AllowedList(key))}

\* for _, country := range allowedCountries { if country == country { ... } }:
\* the range variable has the name of the parameter, so the test compares
\* the entry with itself and what is stored is the entry
WithOne(p, key, value) ==
  IF value = "" THEN p
  ELSE LET list == AllowedList(key)
           hits == {i \in 1..Len(list) : list[i] = list[i]}
       IN IF hits = {} THEN p
          ELSE SetParam(p, key, list[CHOOSE i \in hits : \A j \in hits : i <= j])

WithCountry(p, country) == WithOne(p, "country", country)
WithCategory(p, category) == WithOne(p, "category", category)
WithLanguage(p, language) == WithOne(p, "language", language)

NoParams == [k \in {} |-> ""]
NoBuild == [key |-> "", arg |-> "", before |-> NoParams]

BuilderIdle == sbP = NoParams /\ sbApplied = 0 /\ sbLast = NoBuild

\* ------------------- StreamArticles / GetArticles (part_012)
\* NewArticleRequest: params is a new map holding the query
NewArticleRequest(q) == [k \in {"q"} |-> q]

\* if page != "" { req.params["page"] = page }: the map is the caller's
WithPageOf(params, page) == IF page # "" THEN SetParam(params, "page", page) ELSE params

\* the errors of this version's fetch / fetchNews
RequestFetchErr(kind) ==
  CASE kind = "transport" -> <<"transport - url">>
    [] kind = "http"      -> <<"rate limited - url">>
    [] kind = "decode"    -> <<"json">>

RequestIdle ==
  /\ arQuery = "" /\ arMax0 = 0 /\ arParams = NewArticleRequest("") /\ arRun = 0
  /\ arPc = "idle" /\ arMax = 0 /\ arPage = "" /\ arIndex = 0 /\ arRes = NoRes
  /\ arIdx = 0 /\ arErr = NilErr /\ arNreq = 0 /\ arGpc = "idle"
  /\ arArticles = <<>> /\ arRets = <<>> /\ arFirst = <<>>

\* ----------------------------------------------------------------- Init
Init ==
  /\ RequestIdle
  /\ BuilderIdle
  /\ ProcessIdle
  /\ GenerateIdle
  /\ DecodeIdle
  /\ ValidateIdle
  /\ OptionsIdle
  /\ LimitIdle
  /\ sizes \in Layouts
  /\ totalResults \in 0..(SumSeq(sizes) + 1)
  /\ query \in Queries
  /\ mode \in Modes
  /\ maxResults \in IF mode = "get" THEN 0..(MaxItems + 1) ELSE {0}
  /\ ctxDone = FALSE
  /\ pc = "fetch"
  /\ reqParams = newRequestParams(query)
  /\ res = NoRes
  /\ idx = 0
  /\ articlesCount = 0
  /\ errChan = <<>>
  /\ errLog = <<>>
  /\ errCloses = 0
  /\ outCloses = 0
  /\ gpc = "range"
  /\ articles = <<>>
  /\ ret = NoRet
  /\ requests = <<>>
  /\ responses = <<>>
  /\ failed = NilErr
  /\ exitWhy = "none"
  /\ cancelInfo = NoCancel
  /\ SourcesIdle
  /\ ArticlesIdle

\* ------------------------------------------------- producer (Stream)
\* s.fetch is entered: net/http refuses a cancelled context before it
\* sends anything; otherwise the request reaches the server.
StreamFetchCall ==
  /\ pc = "fetch"
  /\ IF ctxDone
       THEN /\ errChan' = Append(errChan, StreamFetchErr("canceled"))
            /\ errLog' = Append(errLog, StreamFetchErr("canceled"))
            /\ pc' = "closeErr"
            /\ exitWhy' = "fetchErr"
            /\ UNCHANGED requests
       ELSE /\ requests' = Append(requests, reqParams)
            /\ pc' = "inflight"
            /\ UNCHANGED <<errChan, errLog, exitWhy>>
  /\ UNCHANGED <<otherVars, serverVars, ctxDone, reqParams, res, idx, articlesCount,
                 errCloses, outCloses, gpc, articles, ret, responses, failed,
                 cancelInfo>>

\* s.fetch returns a decoded page
StreamFetchOk ==
  /\ pc = "inflight"
  /\ ~ctxDone
  /\ PageAsked(reqParams) # 0
  /\ LET r == ServerPage(PageAsked(reqParams))
     IN /\ res' = r
        /\ responses' = Append(responses, [page |-> PageAsked(reqParams),
                                            nextPage |-> r.nextPage])
        /\ idx' = 1
        /\ pc' = IF Len(r.items) = 0 THEN "endpage" ELSE "send"
  /\ UNCHANGED <<otherVars, serverVars, ctxDone, reqParams, articlesCount, errChan, errLog,
                 errCloses, outCloses, gpc, articles, ret, requests, failed,
                 exitWhy, cancelInfo>>

\* s.fetch returns an error: errChan <- err; return
StreamFetchFail ==
  /\ pc = "inflight"
  /\ \E kind \in FailKinds \cup {"canceled"} :
       /\ (kind = "canceled") = ctxDone
       /\ PageAsked(reqParams) = 0 => kind \in {"http", "canceled"}
       /\ errChan' = Append(errChan, StreamFetchErr(kind))
       /\ errLog' = Append(errLog, StreamFetchErr(kind))
       /\ failed' = IF kind = "canceled" THEN failed ELSE StreamFetchErr(kind)
  /\ pc' = "closeErr"
  /\ exitWhy' = "fetchErr"
  /\ UNCHANGED <<otherVars, serverVars, ctxDone, reqParams, res, idx, articlesCount,
                 errCloses, outCloses, gpc, articles, ret, requests, responses,
                 cancelInfo>>

\* select, case out <- &article: the consumer receives; articlesCount++
StreamSend ==
  /\ pc = "send"
  /\ gpc = "range"
  /\ articles' = Append(articles, RangeArticle(res, idx))
  /\ articlesCount' = articlesCount + 1
  /\ idx' = idx + 1
  /\ pc' = IF idx + 1 > Len(res.items) THEN "endpage" ELSE "send"
  /\ gpc' = IF mode = "get" THEN "check" ELSE "range"
  /\ UNCHANGED <<otherVars, serverVars, ctxDone, reqParams, res, errChan, errLog, errCloses,
                 outCloses, ret, requests, responses, failed, exitWhy,
                 cancelInfo>>

\* mutant: the select has no case for ctx.Done(); the producer stays in
\* its send
StreamCtxDone_NoCase ==
  /\ pc = "send"
  /\ ctxDone
  /\ UNCHANGED vars

\* select, case <-ctx.Done(): errChan <- err; return
StreamCtxDone ==
  /\ pc = "send"
  /\ ctxDone
  /\ errChan' = Append(errChan, StreamCtxDoneErr)
  /\ errLog' = Append(errLog, StreamCtxDoneErr)
  /\ pc' = "closeErr"
  /\ exitWhy' = "ctxDone"
  /\ UNCHANGED <<otherVars, serverVars, ctxDone, reqParams, res, idx, articlesCount,
                 errCloses, outCloses, gpc, articles, ret, requests, responses,
                 failed, cancelInfo>>

\* after the range loop: stop on totalResults, else follow nextPage
StreamEndOfPage ==
  /\ pc = "endpage"
  /\ LET d == EndOfPage(articlesCount, res)
     IN IF d = "continue"
          THEN /\ reqParams' = SetPage(reqParams, res.nextPage)
               /\ pc' = "fetch"
               /\ UNCHANGED exitWhy
          ELSE /\ pc' = "closeErr"
               /\ exitWhy' = d
               /\ UNCHANGED reqParams
  /\ UNCHANGED <<otherVars, serverVars, ctxDone, res, idx, articlesCount, errChan, errLog,
                 errCloses, outCloses, gpc, articles, ret, requests, responses,
                 failed, cancelInfo>>

\* deferred close(errChan), which runs before the deferred close(out)
StreamCloseErrChan ==
  /\ pc = "closeErr"
  /\ errCloses' = errCloses + 1
  /\ pc' = "closeOut"
  /\ UNCHANGED <<otherVars, serverVars, ctxDone, reqParams, res, idx, articlesCount,
                 errChan, errLog, outCloses, gpc, articles, ret, requests, responses,
                 failed, exitWhy, cancelInfo>>

\* mutant: the article channel is left open
StreamCloseOut_Forgotten ==
  /\ pc = "closeOut"
  /\ pc' = "done"
  /\ UNCHANGED <<otherVars, serverVars, ctxDone, reqParams, res, idx, articlesCount,
                 errChan, errLog, errCloses, outCloses, gpc, articles, ret,
                 requests, responses, failed, exitWhy, cancelInfo>>

\* deferred close(out)
StreamCloseOut ==
  /\ pc = "closeOut"
  /\ outCloses' = outCloses + 1
  /\ pc' = "done"
  /\ UNCHANGED <<otherVars, serverVars, ctxDone, reqParams, res, idx, articlesCount,
                 errChan, errLog, errCloses, gpc, articles, ret, requests, responses,
                 failed, exitWhy, cancelInfo>>

\* ------------------------------------------------------ consumer (Get)
\* after append: cancel() and return on the cap, else receive again
GetCheck ==
  /\ mode = "get"
  /\ gpc = "check"
  /\ IF CapReached(Len(articles), maxResults)
       THEN /\ ctxDone' = TRUE
            /\ ret' = [isNil |-> FALSE, articles |-> SubSeq(articles, 1, maxResults),
                        err |-> NilErr]
            /\ gpc' = "returned"
       ELSE /\ gpc' = "range"
            /\ UNCHANGED <<ctxDone, ret>>
  /\ UNCHANGED <<otherVars, serverVars, pc, reqParams, res, idx, articlesCount, errChan, errLog,
                 errCloses, outCloses, articles, requests, responses, failed,
                 exitWhy, cancelInfo>>

\* the range over articlesChan ends: the channel is closed
GetRangeEnd ==
  /\ mode = "get"
  /\ gpc = "range"
  /\ outCloses > 0
  /\ gpc' = "select"
  /\ UNCHANGED <<otherVars, serverVars, ctxDone, pc, reqParams, res, idx, articlesCount,
                 errChan, errLog, errCloses, outCloses, articles, ret, requests,
                 responses, failed, exitWhy, cancelInfo>>

\* select { case err := <-errChan: return nil, err; default: return articles, nil }
\* followed by the deferred cancel()
GetReturn ==
  /\ mode = "get"
  /\ gpc = "select"
  /\ ret' = GetSelect(errChan, errCloses, articles)
  /\ errChan' = IF errChan # <<>> THEN Tail(errChan) ELSE errChan
  /\ ctxDone' = TRUE
  /\ gpc' = "returned"
  /\ UNCHANGED <<otherVars, serverVars, errLog, pc, reqParams, res, idx, articlesCount,
                 errCloses, outCloses, articles, requests, responses, failed,
                 exitWhy, cancelInfo>>

\* ------------------------------------------- consumer (caller of Stream)
\* the caller's range over the article channel ends, it reads the error
CallerRangeEnd ==
  /\ mode = "stream"
  /\ gpc = "range"
  /\ outCloses > 0
  /\ ret' = [isNil |-> FALSE, articles |-> articles,
             err |-> IF errChan # <<>> THEN errChan[1] ELSE NilErr]
  /\ gpc' = "returned"
  /\ UNCHANGED <<otherVars, serverVars, ctxDone, pc, reqParams, res, idx, articlesCount,
                 errChan, errLog, errCloses, outCloses, articles, requests, responses,
                 failed, exitWhy, cancelInfo>>

\* the caller cancels the context it passed to Stream or to Get
CallerCancel ==
  /\ ~ctxDone
  /\ gpc # "returned"
  /\ ctxDone' = TRUE
  /\ cancelInfo' = [at |-> pc, nreq |-> Len(requests), nrecv |-> Len(articles)]
  /\ UNCHANGED <<otherVars, serverVars, pc, reqParams, res, idx, articlesCount, errChan, errLog,
                 errCloses, outCloses, gpc, articles, ret, requests, responses,
                 failed, exitWhy>>

Next ==
  \/ StreamFetchCall
  \/ StreamFetchOk
  \/ StreamFetchFail
  \/ StreamSend
  \/ StreamCtxDone
  \/ StreamEndOfPage
  \/ StreamCloseErrChan
  \/ StreamCloseOut
  \/ GetCheck
  \/ GetRangeEnd
  \/ GetReturn
  \/ CallerRangeEnd
  \/ CallerCancel

Spec == Init /\ [][Next]_vars

TypeOK ==
  /\ pc \in {"fetch", "inflight", "send", "endpage", "closeErr", "closeOut", "done"}
  /\ gpc \in {"range", "check", "select", "returned"}
  /\ Len(errChan) <= 1
\* =================================================================
\* Properties
\* =================================================================
\* the server reports as totalResults the number of items it holds
ServerTruthful == totalResults = NumItems

\* no fetch failed and the caller did not cancel
QuietRun == failed = NilErr /\ cancelInfo = NoCancel

GetReturned == mode = "get" /\ gpc = "returned"

\* the items of the pages answered so far, in the order they were answered
RECURSIVE ServedUpTo(_)
ServedUpTo(n) ==
  IF n = 0 THEN <<>> ELSE ServedUpTo(n - 1) \o PageItems(responses[n].page)

Served == ServedUpTo(Len(responses))

IsPrefix(s, t) == Len(s) <= Len(t) /\ \A i \in 1..Len(s) : s[i] = t[i]

\* C1: when the server holds M items and maxResults is 0 or greater than M,
\* Get returns exactly those M items and a nil error.
C1_GetReturnsAllItems ==
  (GetReturned /\ QuietRun /\ ServerTruthful
     /\ (maxResults = 0 \/ maxResults > NumItems))
  => (ret.articles = FirstItems(NumItems) /\ ret.err = NilErr)

\* C2: with maxResults > 0, Get never collects and never returns more than
\* maxResults articles.
C2_NeverMoreThanMax ==
  (mode = "get" /\ maxResults > 0)
  => (Len(articles) <= maxResults /\ Len(ret.articles) <= maxResults)

C2_Witness ==
  /\ GetReturned /\ maxResults > 0 /\ NumItems > maxResults
  /\ Len(ret.articles) = maxResults

C4_OrderPreserved ==
  /\ IsPrefix(articles, Served)
  /\ gpc = "returned" => IsPrefix(ret.articles, Served)

C4_Witness ==
  /\ mode = "stream" /\ gpc = "returned"
  /\ Len(responses) >= 2 /\ Len(articles) >= 3 /\ articles = Served
\* the producer holds a decoded response whose nextPage is empty
LastPageReceived == res.status = "success" /\ res.nextPage = ""

\* C5 (as stated): once a response whose nextPage is empty has been
\* received, no further request is made, all items of that page are
\* emitted and the article channel is closed with no error.
C5_EmptyNextPageEndsWithoutError ==
  (ServerTruthful /\ LastPageReceived)
  => /\ Len(requests) = Len(responses)
     /\ pc = "done" => (articles = Served /\ errLog = <<>> /\ outCloses = 1)

\* C5 (amended): once a response whose nextPage is empty has been received,
\* no further request is made and the article channel is closed once; all
\* items of the page are emitted and no error is sent, unless the context
\* is cancelled before the page is fully handed over, in which case the run
\* ends with the context-done error.
C5_EmptyNextPageEnds ==
  LastPageReceived
  => /\ Len(requests) = Len(responses)
     /\ pc \notin {"fetch", "inflight"}
     /\ pc = "done"
          => /\ outCloses = 1
             /\ \/ articles = Served /\ errLog = <<>>
                \/ ctxDone /\ errLog = <<StreamCtxDoneErr>>

C5_Witness ==
  /\ LastPageReceived /\ pc = "done" /\ Len(responses) >= 2
  /\ Len(articles) >= 2 /\ articles = Served /\ errLog = <<>>

\* C6: after the caller cancels the context during the retrieval, no
\* further request reaches the server, no further item is delivered, and
\* the run ends with an error that wraps context.Canceled.
C6_CancelStopsEverything ==
  (ServerTruthful /\ cancelInfo.at \in {"fetch", "inflight", "send"})
  => /\ Len(requests) = cancelInfo.nreq
     /\ Len(articles) = cancelInfo.nrecv
     /\ pc = "done" => (errLog # <<>> /\ ErrorsIs(errLog[1], Canceled))

\* n items is exactly the content of pages 1..k, page k is not empty and
\* page k+1 exists and is not empty
BoundaryAfter(k, n) ==
  /\ k \in 1..(NPages - 1)
  /\ sizes[k] > 0 /\ sizes[k + 1] > 0
  /\ Offset(k + 1) = n

\* C7: a consumer of Stream that cancels after receiving the last item of
\* page k and before any item of page k+1 observes exactly the items of
\* pages 1..k, then a cancellation error, and request k+1 is never issued.
C7_CancelBetweenPages ==
  \A k \in 1..MaxPages :
    (mode = "stream" /\ gpc = "returned" /\ ServerTruthful /\ failed = NilErr
       /\ cancelInfo.at # "none" /\ BoundaryAfter(k, cancelInfo.nrecv))
    => /\ ret.articles = FirstItems(cancelInfo.nrecv)
       /\ ErrorsIs(ret.err, Canceled)
       /\ Len(requests) <= k

\* Get returned from inside its range loop, on the cap
CapReturn == GetReturned /\ CapReached(Len(articles), maxResults)

\* C8 (as stated): when a page fetch or decode fails, Get returns that
\* error and a nil collection; it never returns articles with an error.
C8_FailureReturnsOnlyError ==
  (ServerTruthful /\ GetReturned)
  => /\ ret.err # NilErr => ret.isNil
     /\ failed # NilErr => (ret.isNil /\ ret.err = failed)

\* C8 (amended): when a page fetch or decode fails before Get has received
\* maxResults articles, Get returns that error and a nil collection; when
\* the failing request is the one issued after the maxResults-th article
\* was handed over, Get returns the maxResults articles and a nil error.
\* Get never returns articles together with an error.
C8_FailureBeforeCapReturnsOnlyError ==
  GetReturned
  => /\ ret.err # NilErr => ret.isNil
     /\ failed # NilErr
          => \/ ret.isNil /\ ret.err = failed
             \/ CapReturn /\ ret.articles = articles /\ ret.err = NilErr

C8_Witness ==
  /\ GetReturned /\ failed # NilErr /\ Len(requests) >= 2 /\ Len(articles) >= 1
  /\ ret.isNil /\ ret.err = failed

\* C9 (as stated): every run closes the article channel exactly once and
\* sends at most one error; a run that ends by exhaustion of the pages or
\* by reaching the cap closes without any error.
C9_CloseOnceAndCapWithoutError ==
  ServerTruthful
  => /\ outCloses <= 1 /\ Len(errLog) <= 1
     /\ pc = "done" => outCloses = 1
     /\ (pc = "done" /\ (exitWhy \in {"total", "lastPage"} \/ CapReturn))
          => errLog = <<>>

\* C9 (amended): every run closes the article channel exactly once and
\* sends at most one error; a run that ends by exhaustion of the pages
\* sends none; when Get reaches the cap it returns a nil error, while the
\* producer it cancels may still send its one error.
C9_CloseOnce ==
  /\ outCloses <= 1 /\ Len(errLog) <= 1
  /\ pc = "done" => outCloses = 1
  /\ (pc = "done" /\ exitWhy \in {"total", "lastPage"}) => errLog = <<>>
  /\ CapReturn => ret.err = NilErr

C9_Witness ==
  /\ pc = "done" /\ exitWhy = "lastPage" /\ Len(responses) >= 2
  /\ outCloses = 1 /\ errLog = <<>>

\* C10: the first request carries no page parameter, and the page
\* parameter of request N+1 is the nextPage of response N, unmodified.
C10_TokenRoundTrip ==
  /\ Len(requests) >= 1 => "page" \notin DOMAIN requests[1]
  /\ \A n \in 1..(Len(requests) - 1) :
       /\ "page" \in DOMAIN requests[n + 1]
       /\ requests[n + 1]["page"] = responses[n].nextPage

C10_Witness ==
  /\ Len(requests) >= 3 /\ Len(responses) >= 3
  /\ requests[3]["page"] = Token(3)

\* the producer holds a decoded response with no items and a nextPage
SparseRes == res.status = "success" /\ Len(res.items) = 0 /\ res.nextPage # ""

HttpFailed == failed # NilErr /\ ErrorsIs(failed, "fetch - error reading response body")

\* C12: when the server answers a page request with a non-2xx status and an
\* error body, the retrieval ends with one error that carries
\* results.message, nothing of that response is emitted (nothing at all
\* when it is page 1), and no further request is made.
C12_HttpErrorEndsRetrieval ==
  HttpFailed
  => /\ errLog = <<failed>>
     /\ failed[Len(failed)] = "rate limited"
     /\ exitWhy = "fetchErr" /\ pc \in {"closeErr", "closeOut", "done"}
     /\ Len(requests) = Len(responses) + 1
     /\ IsPrefix(articles, Served)
     /\ Len(responses) = 0 => articles = <<>>
     /\ (mode = "stream" /\ gpc = "returned") => ret.err = failed

C12_Witness ==
  /\ HttpFailed /\ mode = "stream" /\ gpc = "returned" /\ pc = "done"
  /\ Len(requests) = 1 /\ articles = <<>> /\ ret.err = failed

\* =================================================================
\* SourcesService.Get
\* =================================================================
\* Stream and Get are not running
EngineIdle ==
  /\ query = "" /\ mode = "stream"
  /\ maxResults = 0 /\ ctxDone = FALSE /\ pc = "done"
  /\ reqParams = newRequestParams("") /\ res = NoRes /\ idx = 0
  /\ articlesCount = 0 /\ errChan = <<>> /\ errLog = <<>> /\ errCloses = 0
  /\ outCloses = 0 /\ gpc = "returned" /\ articles = <<>> /\ ret = NoRet
  /\ requests = <<>> /\ responses = <<>> /\ failed = NilErr
  /\ exitWhy = "none" /\ cancelInfo = NoCancel

StreamIdle == sizes = <<0>> /\ totalResults = 0 /\ EngineIdle

SourcesInit ==
  /\ RequestIdle
  /\ BuilderIdle
  /\ ProcessIdle
  /\ GenerateIdle
  /\ DecodeIdle
  /\ ValidateIdle
  /\ OptionsIdle
  /\ LimitIdle
  /\ StreamIdle
  /\ ArticlesIdle
  /\ srcServer \in SourcesBodies
  /\ srcPc = "call"
  /\ srcBody = NoBody
  /\ srcFetches = 0
  /\ srcDecodes = 0
  /\ srcRet = NoSourcesRet

\* body, err := s.client.fetch(ctx, endpointSources, reqParams): the request
\* is sent (or refused, the context being cancelled)
SourcesFetchCall ==
  /\ srcPc = "call"
  /\ srcFetches' = srcFetches + 1
  /\ srcPc' = "inflight"
  /\ UNCHANGED <<notSources, srcServer, srcBody, srcDecodes, srcRet>>

\* httpClient.Do fails: return nil, err
SourcesFetchTransportFail ==
  /\ srcPc = "inflight"
  /\ \E kind \in {"transport", "canceled"} :
       srcRet' = [isNil |-> TRUE, sources |-> <<>>, err |-> GetSourcesFetchErr(kind)]
  /\ srcPc' = "returned"
  /\ UNCHANGED <<notSources, srcServer, srcBody, srcFetches, srcDecodes>>

\* the server answers a non-200 status: client.fetch decodes the error body
SourcesFetchHttpFail ==
  /\ srcPc = "inflight"
  /\ srcDecodes' = srcDecodes + 1
  /\ srcRet' = [isNil |-> TRUE, sources |-> <<>>, err |-> GetSourcesFetchErr("http")]
  /\ srcPc' = "returned"
  /\ UNCHANGED <<notSources, srcServer, srcBody, srcFetches>>

\* the server answers 200 with its body
SourcesFetchOk ==
  /\ srcPc = "inflight"
  /\ srcBody' = srcServer
  /\ srcPc' = "decode"
  /\ UNCHANGED <<notSources, srcServer, srcFetches, srcDecodes, srcRet>>

\* json.Unmarshal(body, &res), the append loop, return
SourcesDecode ==
  /\ srcPc = "decode"
  /\ srcDecodes' = srcDecodes + 1
  /\ srcRet' = IF srcBody.wellFormed
                 THEN [isNil |-> FALSE, sources |-> DecodeSources(srcBody), err |-> NilErr]
                 ELSE [isNil |-> TRUE, sources |-> <<>>, err |-> GetSourcesDecodeErr]
  /\ srcPc' = "returned"
  /\ UNCHANGED <<notSources, srcServer, srcBody, srcFetches>>

SourcesNext ==
  \/ SourcesFetchCall
  \/ SourcesFetchTransportFail
  \/ SourcesFetchHttpFail
  \/ SourcesFetchOk
  \/ SourcesDecode

SpecSources == SourcesInit /\ [][SourcesNext]_vars

\* Get returns either the whole decoded list or an error, never both
SourcesAllOrError ==
  \/ srcRet.err = NilErr /\ ~srcRet.isNil /\ srcRet.sources = srcServer.sources
  \/ srcRet.err # NilErr /\ srcRet.isNil /\ srcRet.sources = <<>>

ArticlesInit ==
  /\ RequestIdle
  /\ BuilderIdle
  /\ ProcessIdle
  /\ GenerateIdle
  /\ DecodeIdle
  /\ ValidateIdle
  /\ OptionsIdle
  /\ LimitIdle
  /\ sizes \in Layouts
  /\ totalResults \in 0..(SumSeq(sizes) + 1)
  /\ EngineIdle
  /\ SourcesIdle
  /\ saMode \in ArticlesModes
  /\ saValid \in BOOLEAN
  /\ saMax \in 0..(MaxItems + 1)
  /\ saPc = IF saMode = "advanced" THEN "idle" ELSE "validate"
  /\ saGpc = CASE saMode = "advanced" -> "validate"
                [] saMode = "drain"    -> "range"
                [] OTHER               -> "select"
  /\ saPage = "" /\ saIndex = 0 /\ saRes = NoRes /\ saIdx = 0 /\ saErr = NilErr
  /\ saErrCloses = 0 /\ saOutCloses = 0 /\ saArticles = <<>> /\ saRet = NoRet
  /\ saRequests = <<>> /\ saFailed = NilErr /\ saExit = "none"

\* latestNewsService.AdvancedSearch: params.Validate() before getArticles
AdvancedSearchValidate ==
  /\ saMode = "advanced" /\ saGpc = "validate"
  /\ IF saValid
       THEN saGpc' = "getArticles" /\ UNCHANGED saRet
       ELSE /\ saGpc' = "returned"
            /\ saRet' = [isNil |-> TRUE, articles |-> <<>>, err |-> ValidationErr]
  /\ UNCHANGED <<notArticles, saMode, saValid, saMax, saPc,
                 saPage, saIndex, saRes, saIdx, saErr, saErrCloses,
                 saOutCloses, saArticles, saRequests, saFailed, saExit>>

\* the goroutine starts: query.validate()
ArticlesValidate ==
  /\ saPc = "validate"
  /\ saPc' = AfterValidate(saValid)
  /\ saErr' = IF saValid THEN saErr ELSE ValidationErr
  /\ saExit' = IF saValid THEN saExit ELSE "validate"
  /\ UNCHANGED <<notArticles, saMode, saValid, saMax, saPage,
                 saIndex, saRes, saIdx, saErrCloses, saOutCloses, saGpc,
                 saArticles, saRet, saRequests, saFailed>>

\* query.setPage(page); c.fetchNews(endpoint, query): the request is sent
ArticlesFetchCall ==
  /\ saPc = "fetch"
  /\ Len(saRequests) < MaxRequests
  /\ saRequests' = Append(saRequests, PagedQuery(saPage))
  /\ saPc' = "inflight"
  /\ UNCHANGED <<notArticles, saMode, saValid, saMax, saPage,
                 saIndex, saRes, saIdx, saErr, saErrCloses, saOutCloses,
                 saGpc, saArticles, saRet, saFailed, saExit>>

\* fetchNews returns a decoded page; maxResults 0 becomes res.TotalResults
ArticlesFetchOk ==
  /\ saPc = "inflight"
  /\ PageAsked(PagedQuery(saPage)) # 0
  /\ LET r == ServerPage(PageAsked(PagedQuery(saPage)))
     IN /\ saRes' = r
        /\ saMax' = IF saMax = 0 THEN r.totalResults ELSE saMax
        /\ saIdx' = 1
        /\ saPc' = IF Len(r.items) = 0 THEN "endpage" ELSE "item"
  /\ UNCHANGED <<notArticles, saMode, saValid, saPage, saIndex,
                 saErr, saErrCloses, saOutCloses, saGpc, saArticles, saRet,
                 saRequests, saFailed, saExit>>

\* fetchNews returns an error
ArticlesFetchFail ==
  /\ saPc = "inflight"
  /\ \E kind \in FailKinds :
       /\ saErr' = ArticlesFetchErr(kind)
       /\ saFailed' = ArticlesFetchErr(kind)
  /\ saPc' = "sendErr"
  /\ saExit' = "fetchErr"
  /\ UNCHANGED <<notArticles, saMode, saValid, saMax, saPage,
                 saIndex, saRes, saIdx, saErrCloses, saOutCloses, saGpc,
                 saArticles, saRet, saRequests>>

\* errChan <- err: the unbuffered send meets a receive of the caller
ArticlesSendErr ==
  /\ saPc = "sendErr"
  /\ saGpc \in {"select", "readErr"}
  /\ saRet' = IF saGpc = "readErr"
                THEN [isNil |-> FALSE, articles |-> saArticles, err |-> saErr]
                ELSE [isNil |-> TRUE, articles |-> <<>>, err |-> saErr]
  /\ saGpc' = IF saMode = "stream" THEN "select" ELSE "returned"
  /\ saPc' = "closeErr"
  /\ UNCHANGED <<notArticles, saMode, saValid, saMax, saPage,
                 saIndex, saRes, saIdx, saErr, saErrCloses, saOutCloses,
                 saArticles, saRequests, saFailed, saExit>>

\* index < maxResults: out <- article meets a receive of the caller; index++
ArticlesSend ==
  /\ saPc = "item"
  /\ saIndex < saMax
  /\ saGpc \in {"select", "range"}
  /\ saArticles' = Append(saArticles, RangeArticle(saRes, saIdx))
  /\ saIndex' = saIndex + 1
  /\ saIdx' = saIdx + 1
  /\ saPc' = IF saIdx + 1 > Len(saRes.items) THEN "endpage" ELSE "item"
  /\ UNCHANGED <<notArticles, saMode, saValid, saMax, saPage,
                 saRes, saErr, saErrCloses, saOutCloses, saGpc, saRet,
                 saRequests, saFailed, saExit>>

\* index >= maxResults: return
ArticlesCapReturn ==
  /\ saPc = "item"
  /\ ~(saIndex < saMax)
  /\ saPc' = "closeErr"
  /\ saExit' = "cap"
  /\ UNCHANGED <<notArticles, saMode, saValid, saMax, saPage,
                 saIndex, saRes, saIdx, saErr, saErrCloses, saOutCloses,
                 saGpc, saArticles, saRet, saRequests, saFailed>>

\* page = res.NextPage, and round the loop again
ArticlesEndOfPage ==
  /\ saPc = "endpage"
  /\ saPage' = saRes.nextPage
  /\ saPc' = "fetch"
  /\ UNCHANGED <<notArticles, saMode, saValid, saMax, saIndex,
                 saRes, saIdx, saErr, saErrCloses, saOutCloses, saGpc,
                 saArticles, saRet, saRequests, saFailed, saExit>>

\* deferred close(errChan), which runs before the deferred close(out)
ArticlesCloseErrChan ==
  /\ saPc = "closeErr"
  /\ saErrCloses' = saErrCloses + 1
  /\ saPc' = "closeOut"
  /\ UNCHANGED <<notArticles, saMode, saValid, saMax, saPage,
                 saIndex, saRes, saIdx, saErr, saOutCloses, saGpc,
                 saArticles, saRet, saRequests, saFailed, saExit>>

\* deferred close(out)
ArticlesCloseOut ==
  /\ saPc = "closeOut"
  /\ saOutCloses' = saOutCloses + 1
  /\ saPc' = "done"
  /\ UNCHANGED <<notArticles, saMode, saValid, saMax, saPage,
                 saIndex, saRes, saIdx, saErr, saErrCloses, saGpc,
                 saArticles, saRet, saRequests, saFailed, saExit>>

\* the caller finds the article channel closed.  fetchArticles returns
\* (&articles, nil); a caller of Stream*News keeps the error it received.
ArticlesOutClosed ==
  /\ saGpc = "select"
  /\ saOutCloses > 0
  /\ saRet' = IF saMode = "fetchArticles"
                THEN [isNil |-> FALSE, articles |-> saArticles, err |-> NilErr]
                ELSE [isNil |-> FALSE, articles |-> saArticles, err |-> saRet.err]
  /\ saGpc' = "returned"
  /\ UNCHANGED <<notArticles, saMode, saValid, saMax, saPc,
                 saPage, saIndex, saRes, saIdx, saErr, saErrCloses,
                 saOutCloses, saArticles, saRequests, saFailed, saExit>>

\* the draining caller: its range over the article channel ends when the
\* channel is closed; it goes on to receive from the error channel
ArticlesRangeEnd ==
  /\ saGpc = "range"
  /\ saOutCloses > 0
  /\ saGpc' = "readErr"
  /\ UNCHANGED <<notArticles, saMode, saValid, saMax, saPc,
                 saPage, saIndex, saRes, saIdx, saErr, saErrCloses,
                 saOutCloses, saArticles, saRet, saRequests, saFailed, saExit>>

\* the draining caller receives from the closed error channel: nil
ArticlesErrClosed ==
  /\ saGpc = "readErr"
  /\ saErrCloses > 0
  /\ saRet' = [isNil |-> FALSE, articles |-> saArticles, err |-> NilErr]
  /\ saGpc' = "returned"
  /\ UNCHANGED <<notArticles, saMode, saValid, saMax, saPc,
                 saPage, saIndex, saRes, saIdx, saErr, saErrCloses,
                 saOutCloses, saArticles, saRequests, saFailed, saExit>>

ArticlesNext ==
  \/ AdvancedSearchValidate
  \/ ArticlesValidate
  \/ ArticlesFetchCall
  \/ ArticlesFetchOk
  \/ ArticlesFetchFail
  \/ ArticlesSendErr
  \/ ArticlesSend
  \/ ArticlesCapReturn
  \/ ArticlesEndOfPage
  \/ ArticlesCloseErrChan
  \/ ArticlesCloseOut
  \/ ArticlesOutClosed
  \/ ArticlesRangeEnd
  \/ ArticlesErrClosed

SpecArticles == ArticlesInit /\ [][ArticlesNext]_vars

C20_FewerThanCapExhausts ==
  (saMode \in {"fetchArticles", "stream"} /\ saValid /\ ServerTruthful
     /\ saFailed = NilErr /\ saMax > NumItems)
  => /\ IsPrefix(saArticles, FirstItems(NumItems))
     /\ Len(saRequests) <= NPages
     /\ saPc = "done"
          => (saArticles = FirstItems(NumItems) /\ saErr = NilErr
                /\ saErrCloses = 1 /\ saOutCloses = 1)

\* C21: when maxResults = 0 and the first response reports totalResults = 0
\* with no items, streamArticles terminates successfully after that single
\* response, with zero emissions.
C21_ZeroCapZeroTotalTerminates ==
  (saMode \in {"fetchArticles", "stream"} /\ saValid /\ saMax = 0
     /\ saRes # NoRes /\ saRes.totalResults = 0 /\ saRes.items = <<>>
     /\ NumItems = 0)
  => /\ Len(saRequests) = 1
     /\ saArticles = <<>>
     /\ saFailed = NilErr
     /\ saPc = "done" => (saExit # "fetchErr" /\ saOutCloses = 1)

\* C22: when a fetch fails, a consumer that first drains the article
\* channel until it is closed and then reads the error channel sees the
\* article channel close and then obtains the error; producer and consumer
\* never block each other for ever.
C22_DrainThenError ==
  (saMode = "drain" /\ saFailed # NilErr)
  => /\ saGpc # "returned" => ENABLED ArticlesNext
     /\ saGpc = "returned" => (saOutCloses = 1 /\ saRet.err = saFailed)

\* =================================================================
\* baseClient.fetchArticles under the client's result limit
\* =================================================================
\* NewClient: maxResults is 0; the server is any page layout
LimitInit ==
  /\ RequestIdle
  /\ BuilderIdle
  /\ ProcessIdle
  /\ GenerateIdle
  /\ DecodeIdle
  /\ ValidateIdle
  /\ OptionsIdle
  /\ sizes \in Layouts
  /\ totalResults = 0
  /\ EngineIdle
  /\ SourcesIdle
  /\ ArticlesIdle
  /\ bcMaxResults = 0 /\ bcLimitErr = FALSE /\ bcPc = "idle" /\ bcMax = 0
  /\ bcPage = "" /\ bcArticles = <<>> /\ bcRet = NoRet /\ bcRequests = <<>>

\* LimitResultsToFirst(n)
LimitResultsToFirst ==
  /\ bcPc = "idle"
  /\ \E n \in LimitArgs :
       IF n < 0
         THEN bcLimitErr' = TRUE /\ UNCHANGED bcMaxResults
         ELSE bcMaxResults' = n /\ bcLimitErr' = FALSE
  /\ UNCHANGED <<notLimit, bcPc, bcMax, bcPage, bcArticles, bcRet, bcRequests>>

\* a search: fetchArticles(endpoint, params, c.maxResults) is entered
LimitSearch ==
  /\ bcPc = "idle"
  /\ bcMax' = bcMaxResults
  /\ bcPc' = "loop"
  /\ UNCHANGED <<notLimit, bcMaxResults, bcLimitErr, bcPage, bcArticles, bcRet, bcRequests>>

\* the loop condition; params.setPage(page); fetchNews sends the request
LimitLoop ==
  /\ bcPc = "loop"
  /\ IF LoopAgain(Len(bcArticles), bcMax)
       THEN /\ bcRequests' = Append(bcRequests, PagedQuery(bcPage))
            /\ bcPc' = "inflight"
       ELSE /\ bcPc' = "trim"
            /\ UNCHANGED bcRequests
  /\ UNCHANGED <<notLimit, bcMaxResults, bcLimitErr, bcMax, bcPage, bcArticles, bcRet>>

\* fetchNews returns a page, with whatever totalResults the server reports
LimitFetchOk ==
  /\ bcPc = "inflight"
  /\ PageAsked(PagedQuery(bcPage)) # 0
  /\ \E total \in 0..(MaxItems + 1) :
       LET r == [ServerPage(PageAsked(PagedQuery(bcPage))) EXCEPT !.totalResults = total]
           all == bcArticles \o r.items
       IN /\ bcMax' = LowerMax(bcMax, r.totalResults)
          /\ bcArticles' = all
          /\ IF r.nextPage = "" \/ Len(all) >= LowerMax(bcMax, r.totalResults)
               THEN bcPc' = "trim" /\ UNCHANGED bcPage
               ELSE bcPc' = "loop" /\ bcPage' = r.nextPage
  /\ UNCHANGED <<notLimit, bcMaxResults, bcLimitErr, bcRet, bcRequests>>

\* fetchNews returns an error: return nil, err
LimitFetchFail ==
  /\ bcPc = "inflight"
  /\ \E kind \in FailKinds :
       bcRet' = [isNil |-> TRUE, articles |-> <<>>, err |-> ArticlesFetchErr(kind)]
  /\ bcPc' = "returned"
  /\ UNCHANGED <<notLimit, bcMaxResults, bcLimitErr, bcMax, bcPage, bcArticles, bcRequests>>

\* trim to maxResults; return articles, nil
LimitReturn ==
  /\ bcPc = "trim"
  /\ bcRet' = [isNil |-> FALSE, articles |-> TrimArticles(bcArticles, bcMax),
               err |-> NilErr]
  /\ bcPc' = "returned"
  /\ UNCHANGED <<notLimit, bcMaxResults, bcLimitErr, bcMax, bcPage, bcArticles, bcRequests>>

LimitNext ==
  \/ LimitResultsToFirst
  \/ LimitSearch
  \/ LimitLoop
  \/ LimitFetchOk
  \/ LimitFetchFail
  \/ LimitReturn

SpecLimit == LimitInit /\ [][LimitNext]_vars

\* C15: after LimitResultsToFirst(n) with n > 0, every search returns at
\* most n articles, whatever the page sizes and the reported totalResults.
C15_AtMostLimit ==
  (bcPc = "returned" /\ bcMaxResults > 0)
  => /\ Len(bcRet.articles) <= bcMaxResults
     /\ IsPrefix(bcRet.articles, FirstItems(NumItems))

C15_Witness ==
  /\ bcPc = "returned" /\ bcMaxResults = 2 /\ NumItems = 3 /\ sizes[1] = 3
  /\ bcRet.err = NilErr /\ Len(bcRet.articles) = 2 /\ Len(bcArticles) = 3

\* =================================================================
\* newRequestParams: the options applied one after the other
\* =================================================================
\* p := requestParams{}; p["q"] = query for a non-empty query
OptionsInit ==
  /\ RequestIdle
  /\ BuilderIdle
  /\ ProcessIdle
  /\ GenerateIdle
  /\ DecodeIdle
  /\ ValidateIdle
  /\ StreamIdle
  /\ SourcesIdle
  /\ ArticlesIdle
  /\ LimitIdle
  /\ optP \in {newRequestParams(q) : q \in OptionQueries}
  /\ optApplied = 0
  /\ optLast = "none"

ApplyWithQueryInTitle ==
  /\ optLast # "off" /\ optApplied < MaxOptions
  /\ \E q \in OptionQueries : optP' = WithQueryInTitle(optP, q)
  /\ optApplied' = optApplied + 1
  /\ optLast' = "WithQueryInTitle"
  /\ UNCHANGED notOption

ApplyWithQueryInMetadata ==
  /\ optLast # "off" /\ optApplied < MaxOptions
  /\ \E q \in OptionQueries : optP' = WithQueryInMetadata(optP, q)
  /\ optApplied' = optApplied + 1
  /\ optLast' = "WithQueryInMetadata"
  /\ UNCHANGED notOption

ApplyWithCategories ==
  /\ optLast # "off" /\ optApplied < MaxOptions
  /\ \E args \in CategoryArgs : optP' = WithCategories(optP, args)
  /\ optApplied' = optApplied + 1
  /\ optLast' = "WithCategories"
  /\ UNCHANGED notOption

ApplyWithCategoriesExlucded ==
  /\ optLast # "off" /\ optApplied < MaxOptions
  /\ \E args \in CategoryArgs : optP' = WithCategoriesExlucded(optP, args)
  /\ optApplied' = optApplied + 1
  /\ optLast' = "WithCategoriesExlucded"
  /\ UNCHANGED notOption

ApplyWithCountries ==
  /\ optLast # "off" /\ optApplied < MaxOptions
  /\ \E args \in CountryArgs : optP' = WithCountries(optP, args)
  /\ optApplied' = optApplied + 1
  /\ optLast' = "WithCountries"
  /\ UNCHANGED notOption

ApplyWithLanguages ==
  /\ optLast # "off" /\ optApplied < MaxOptions
  /\ \E args \in LanguageArgs : optP' = WithLanguages(optP, args)
  /\ optApplied' = optApplied + 1
  /\ optLast' = "WithLanguages"
  /\ UNCHANGED notOption

OptionsNext ==
  \/ ApplyWithQueryInTitle
  \/ ApplyWithQueryInMetadata
  \/ ApplyWithCategories
  \/ ApplyWithCategoriesExlucded
  \/ ApplyWithCountries
  \/ ApplyWithLanguages

SpecOptions == OptionsInit /\ [][OptionsNext]_vars

\* the query parameters that hold a non-empty value
NonEmptyQueryKeys == {k \in {"q", "qInTitle", "qInMeta"} : ParamStr(optP, k) # ""}

\* C16: after any sequence of options applied to any query, at most one of
\* q, qInTitle and qInMeta is present with a non-empty value.
C16_OneQueryParameter == Cardinality(NonEmptyQueryKeys) <= 1

C16_Witness ==
  /\ optApplied = 2 /\ optLast = "WithQueryInMetadata"
  /\ DOMAIN optP = {"qInTitle", "qInMeta"}
  /\ optP["qInMeta"] = "long[:512]" /\ optP["qInTitle"] = ""

ListKeys == {"category", "excludecategory", "country", "language"}

AllowedFor(key) ==
  CASE key \in {"category", "excludecategory"} -> allowedCategories
    [] key = "country" -> allowedCountries
    [] key = "language" -> allowedLanguages

\* C17: after WithCategories, WithCategoriesExlucded, WithCountries and
\* WithLanguages, each of the category, excludecategory, country and
\* language parameters holds at most 5 values, all from its allow-list.
C17_AtMostFiveAllowed ==
  \A key \in ListKeys :
    /\ Len(ParamList(optP, key)) <= MaxListed
    /\ \A i \in 1..Len(ParamList(optP, key)) :
         ParamList(optP, key)[i] \in AllowedFor(key)

\* =================================================================
\* Validate of the date range, and the search it guards
\* =================================================================
ValidateInit ==
  /\ RequestIdle
  /\ BuilderIdle
  /\ ProcessIdle
  /\ GenerateIdle
  /\ DecodeIdle
  /\ StreamIdle
  /\ SourcesIdle
  /\ ArticlesIdle
  /\ LimitIdle
  /\ OptionsIdle
  /\ vdKind \in ParamsKinds
  /\ vdFieldsOk \in BOOLEAN
  /\ vdFrom \in Times
  /\ vdTo \in Times
  /\ vdNow \in 1..MaxTime
  /\ vdPc = "call"
  /\ vdErr = NilErr

\* AdvancedSearch: err := params.Validate()
SearchValidate ==
  /\ vdPc = "call"
  /\ vdErr' = Validate(vdFieldsOk, vdFrom, vdTo, vdNow)
  /\ vdPc' = "validated"
  /\ UNCHANGED <<notValidate, vdKind, vdFieldsOk, vdFrom, vdTo, vdNow>>

\* if err != nil { return nil, err }
SearchReturnError ==
  /\ vdPc = "validated"
  /\ vdErr # NilErr
  /\ vdPc' = "returned"
  /\ UNCHANGED <<notValidate, vdKind, vdFieldsOk, vdFrom, vdTo, vdNow, vdErr>>

\* return s.client.getArticles(...): the retrieval starts
SearchGetArticles ==
  /\ vdPc = "validated"
  /\ vdErr = NilErr
  /\ vdPc' = "getArticles"
  /\ UNCHANGED <<notValidate, vdKind, vdFieldsOk, vdFrom, vdTo, vdNow, vdErr>>

ValidateNext ==
  \/ SearchValidate
  \/ SearchReturnError
  \/ SearchGetArticles

SpecValidate == ValidateInit /\ [][ValidateNext]_vars

\* C18: whenever the From or To date is set to a time later than the
\* current time, Validate returns an error and the retrieval is not started.
C18_FutureDateRejected ==
  ((After(vdFrom, vdNow) \/ After(vdTo, vdNow)) /\ vdPc # "call")
  => (vdErr # NilErr /\ vdPc # "getArticles")

\* =================================================================
\* Decoding of the restricted fields
\* =================================================================
DecodeInit ==
  /\ RequestIdle
  /\ BuilderIdle
  /\ ProcessIdle
  /\ GenerateIdle
  /\ StreamIdle
  /\ SourcesIdle
  /\ ArticlesIdle
  /\ LimitIdle
  /\ OptionsIdle
  /\ ValidateIdle
  /\ dcField \in {"Tags", "SentimentStats"}
  /\ dcDoc \in JsonDocs
  /\ dcPc = "raw"
  /\ dcOut = [value |-> IF dcField = "Tags" THEN NilTags ELSE ZeroStats,
              err |-> NilErr]

\* json.Unmarshal reaches an ai_tag / ai_region field
DecodeTags ==
  /\ dcPc = "raw" /\ dcField = "Tags"
  /\ dcOut' = TagsUnmarshalJSON(Bytes(dcDoc))
  /\ dcPc' = "decoded"
  /\ UNCHANGED <<notDecode, dcField, dcDoc>>

\* json.Unmarshal reaches a sentiment_stats field
DecodeSentimentStats ==
  /\ dcPc = "raw" /\ dcField = "SentimentStats"
  /\ dcOut' = SentimentStatsUnmarshalJSON(dcDoc)
  /\ dcPc' = "decoded"
  /\ UNCHANGED <<notDecode, dcField, dcDoc>>

DecodeNext ==
  \/ DecodeTags
  \/ DecodeSentimentStats

SpecDecode == DecodeInit /\ [][DecodeNext]_vars

\* the field carries the plan-restriction message
IsRestriction(doc) ==
  doc.kind = "string" /\ HasPrefix(doc.text, RestrictionPrefix)

\* the field carries a structured value of its type
IsStructured(field, doc) ==
  IF field = "Tags" THEN doc.kind = "array"
  ELSE doc.kind = "object" /\ DOMAIN doc.fields = StatKeys

\* the content of a structured value
ContentOf(field, doc) ==
  IF field = "Tags" THEN [isNil |-> FALSE, tags |-> doc.elems]
  ELSE [positive |-> doc.fields["positive"], neutral |-> doc.fields["neutral"],
        negative |-> doc.fields["negative"]]

\* C19: for the Tags fields and for sentiment_stats, a JSON null and a
\* plan-restriction message both decode to the empty/zero value without
\* error, and a structured value decodes to its content.
C19_RestrictedFieldsDecode ==
  dcPc = "decoded"
  => /\ (dcDoc.kind = "null" \/ IsRestriction(dcDoc))
          => /\ dcOut.err = NilErr
             /\ dcOut.value = IF dcField = "Tags" THEN NilTags ELSE ZeroStats
     /\ IsStructured(dcField, dcDoc)
          => (dcOut.err = NilErr /\ dcOut.value = ContentOf(dcField, dcDoc))

\* =================================================================
\* NewsdataClient.generateArticles / fetchArticles (part_013)
\* =================================================================
GenerateInit ==
  /\ RequestIdle
  /\ BuilderIdle
  /\ ProcessIdle
  /\ DecodeIdle
  /\ ValidateIdle
  /\ OptionsIdle
  /\ LimitIdle
  /\ SourcesIdle
  /\ ArticlesIdle
  /\ sizes \in Layouts
  /\ totalResults \in 0..(SumSeq(sizes) + 1)
  /\ EngineIdle
  /\ gaValid \in BOOLEAN
  /\ gaMax \in 0..(MaxItems + 1)
  /\ gaPc = "validate" /\ gaDpc = "range" /\ gaCpc = "range"
  /\ gaPage = "" /\ gaIndex = 0 /\ gaRes = NoRes /\ gaIdx = 0 /\ gaErr = NilErr
  /\ gaErrCloses = 0 /\ gaOutCloses = 0 /\ gaRequests = 0 /\ gaFailed = NilErr
  /\ gaRecv = NilErr /\ gaGenErr = NilErr /\ gaArticles = <<>> /\ gaRet = NoRet

\* the generator starts: query.validate()
GenerateValidate ==
  /\ gaPc = "validate"
  /\ gaPc' = AfterValidate(gaValid)
  /\ gaErr' = IF gaValid THEN gaErr ELSE ValidationErr
  /\ gaFailed' = IF gaValid THEN gaFailed ELSE ValidationErr
  /\ UNCHANGED <<notGenerate, gaValid, gaMax, gaPage, gaIndex, gaRes, gaIdx,
                 gaErrCloses, gaOutCloses, gaRequests, gaDpc, gaRecv, gaGenErr,
                 gaCpc, gaArticles, gaRet>>

\* query.setPage(page); c.fetchNews(endpoint, query): the request is sent
GenerateFetchCall ==
  /\ gaPc = "fetch"
  /\ gaRequests < MaxRequests
  /\ gaRequests' = gaRequests + 1
  /\ gaPc' = "inflight"
  /\ UNCHANGED <<notGenerate, gaValid, gaMax, gaPage, gaIndex, gaRes, gaIdx,
                 gaErr, gaErrCloses, gaOutCloses, gaFailed, gaDpc, gaRecv,
                 gaGenErr, gaCpc, gaArticles, gaRet>>

\* fetchNews returns a decoded page; maxResults 0 becomes res.TotalResults
GenerateFetchOk ==
  /\ gaPc = "inflight"
  /\ PageAsked(PagedQuery(gaPage)) # 0
  /\ LET r == ServerPage(PageAsked(PagedQuery(gaPage)))
     IN /\ gaRes' = r
        /\ gaMax' = IF gaMax = 0 THEN r.totalResults ELSE gaMax
        /\ gaIdx' = 1
        /\ gaPc' = IF Len(r.items) = 0 THEN "endpage" ELSE "item"
  /\ UNCHANGED <<notGenerate, gaValid, gaPage, gaIndex, gaErr, gaErrCloses,
                 gaOutCloses, gaRequests, gaFailed, gaDpc, gaRecv, gaGenErr,
                 gaCpc, gaArticles, gaRet>>

\* fetchNews returns an error
GenerateFetchFail ==
  /\ gaPc = "inflight"
  /\ \E kind \in FailKinds :
       /\ gaErr' = GenerateFetchErr(kind)
       /\ gaFailed' = GenerateFetchErr(kind)
  /\ gaPc' = "sendErr"
  /\ UNCHANGED <<notGenerate, gaValid, gaMax, gaPage, gaIndex, gaRes, gaIdx,
                 gaErrCloses, gaOutCloses, gaRequests, gaDpc, gaRecv, gaGenErr,
                 gaCpc, gaArticles, gaRet>>

\* errChan <- err meets the receive of the goroutine ranging over errChan
GenerateSendErr ==
  /\ gaPc = "sendErr"
  /\ gaDpc = "range"
  /\ gaRecv' = gaErr
  /\ gaDpc' = "assign"
  /\ gaPc' = "closeErr"
  /\ UNCHANGED <<notGenerate, gaValid, gaMax, gaPage, gaIndex, gaRes, gaIdx,
                 gaErr, gaErrCloses, gaOutCloses, gaRequests, gaFailed,
                 gaGenErr, gaCpc, gaArticles, gaRet>>

\* index < maxResults: out <- article meets the range of fetchArticles
GenerateSend ==
  /\ gaPc = "item"
  /\ gaIndex < gaMax
  /\ gaCpc = "range"
  /\ gaArticles' = Append(gaArticles, RangeArticle(gaRes, gaIdx))
  /\ gaIndex' = gaIndex + 1
  /\ gaIdx' = gaIdx + 1
  /\ gaPc' = IF gaIdx + 1 > Len(gaRes.items) THEN "endpage" ELSE "item"
  /\ UNCHANGED <<notGenerate, gaValid, gaMax, gaPage, gaRes, gaErr,
                 gaErrCloses, gaOutCloses, gaRequests, gaFailed, gaDpc, gaRecv,
                 gaGenErr, gaCpc, gaRet>>

\* index >= maxResults: return
GenerateCapReturn ==
  /\ gaPc = "item"
  /\ ~(gaIndex < gaMax)
  /\ gaPc' = "closeErr"
  /\ UNCHANGED <<notGenerate, gaValid, gaMax, gaPage, gaIndex, gaRes, gaIdx,
                 gaErr, gaErrCloses, gaOutCloses, gaRequests, gaFailed, gaDpc,
                 gaRecv, gaGenErr, gaCpc, gaArticles, gaRet>>

\* page = res.NextPage, and round the loop again
GenerateEndOfPage ==
  /\ gaPc = "endpage"
  /\ gaPage' = gaRes.nextPage
  /\ gaPc' = "fetch"
  /\ UNCHANGED <<notGenerate, gaValid, gaMax, gaIndex, gaRes, gaIdx, gaErr,
                 gaErrCloses, gaOutCloses, gaRequests, gaFailed, gaDpc, gaRecv,
                 gaGenErr, gaCpc, gaArticles, gaRet>>

\* deferred close(errChan), which runs before the deferred close(out)
GenerateCloseErrChan ==
  /\ gaPc = "closeErr"
  /\ gaErrCloses' = gaErrCloses + 1
  /\ gaPc' = "closeOut"
  /\ UNCHANGED <<notGenerate, gaValid, gaMax, gaPage, gaIndex, gaRes, gaIdx,
                 gaErr, gaOutCloses, gaRequests, gaFailed, gaDpc, gaRecv,
                 gaGenErr, gaCpc, gaArticles, gaRet>>

\* deferred close(out)
GenerateCloseOut ==
  /\ gaPc = "closeOut"
  /\ gaOutCloses' = gaOutCloses + 1
  /\ gaPc' = "done"
  /\ UNCHANGED <<notGenerate, gaValid, gaMax, gaPage, gaIndex, gaRes, gaIdx,
                 gaErr, gaErrCloses, gaRequests, gaFailed, gaDpc, gaRecv,
                 gaGenErr, gaCpc, gaArticles, gaRet>>

\* the body of the loop over errChan: generationError = err.  Nothing orders
\* this write with the read of generationError by fetchArticles.
DrainAssign ==
  /\ gaDpc = "assign"
  /\ gaGenErr' = DrainKeep(gaGenErr, gaRecv)
  /\ gaDpc' = "range"
  /\ UNCHANGED <<notGenerate, gaValid, gaMax, gaPc, gaPage, gaIndex, gaRes,
                 gaIdx, gaErr, gaErrCloses, gaOutCloses, gaRequests, gaFailed,
                 gaRecv, gaCpc, gaArticles, gaRet>>

\* the loop over errChan ends when the channel is closed
DrainEnd ==
  /\ gaDpc = "range"
  /\ gaErrCloses > 0
  /\ gaDpc' = "done"
  /\ UNCHANGED <<notGenerate, gaValid, gaMax, gaPc, gaPage, gaIndex, gaRes,
                 gaIdx, gaErr, gaErrCloses, gaOutCloses, gaRequests, gaFailed,
                 gaRecv, gaGenErr, gaCpc, gaArticles, gaRet>>

\* fetchArticles: the loop over out ends when the channel is closed
FetchArticlesRangeEnd ==
  /\ gaCpc = "range"
  /\ gaOutCloses > 0
  /\ gaCpc' = "check"
  /\ UNCHANGED <<notGenerate, gaValid, gaMax, gaPc, gaPage, gaIndex, gaRes,
                 gaIdx, gaErr, gaErrCloses, gaOutCloses, gaRequests, gaFailed,
                 gaDpc, gaRecv, gaGenErr, gaArticles, gaRet>>

\* fetchArticles reads generationError and returns
FetchArticlesCheck ==
  /\ gaCpc = "check"
  /\ gaRet' = FetchArticlesReturn(gaGenErr, gaArticles)
  /\ gaCpc' = "returned"
  /\ UNCHANGED <<notGenerate, gaValid, gaMax, gaPc, gaPage, gaIndex, gaRes,
                 gaIdx, gaErr, gaErrCloses, gaOutCloses, gaRequests, gaFailed,
                 gaDpc, gaRecv, gaGenErr, gaArticles>>

GenerateNext ==
  \/ GenerateValidate
  \/ GenerateFetchCall
  \/ GenerateFetchOk
  \/ GenerateFetchFail
  \/ GenerateSendErr
  \/ GenerateSend
  \/ GenerateCapReturn
  \/ GenerateEndOfPage
  \/ GenerateCloseErrChan
  \/ GenerateCloseOut
  \/ DrainAssign
  \/ DrainEnd
  \/ FetchArticlesRangeEnd
  \/ FetchArticlesCheck

SpecGenerate == GenerateInit /\ [][GenerateNext]_vars

\* C23: whenever the generator reports an error (validation or fetch
\* failure), fetchArticles returns that error and nil articles, under every
\* interleaving of the generator, the error-draining goroutine and the
\* caller; it never returns a non-nil result with a nil error after a failure.
C23_ErrorAlwaysReturned ==
  (gaCpc = "returned" /\ gaFailed # NilErr)
  => (gaRet.isNil /\ gaRet.err = gaFailed)

\* =================================================================
\* NewsdataClient.processArticles / fetchArticles (part_014)
\* =================================================================
ProcessInit ==
  /\ RequestIdle
  /\ BuilderIdle
  /\ DecodeIdle
  /\ ValidateIdle
  /\ OptionsIdle
  /\ LimitIdle
  /\ SourcesIdle
  /\ ArticlesIdle
  /\ GenerateIdle
  /\ sizes \in Layouts
  /\ totalResults \in 0..(SumSeq(sizes) + 1)
  /\ EngineIdle
  /\ paMode \in ProcessModes
  /\ paMax0 \in 0..(MaxItems + 1)
  /\ paMax = paMax0
  /\ paPc = "loop" /\ paPage = "" /\ paNb = 0 /\ paRes = NoRes
  /\ paBatch = NoBatch /\ paTasks = <<>> /\ paCalls = <<>> /\ paErrLen = 0
  /\ paArticles = <<>> /\ paRet = NoRet /\ paServed = <<>>

\* what the caller gets when processArticles returns err
ProcessReturn(err) ==
  IF err # NilErr THEN [isNil |-> TRUE, articles |-> <<>>, err |-> err]
  ELSE IF paMode = "fetchArticles"
    THEN [isNil |-> FALSE, articles |-> TrimToMax(paArticles, paMax0), err |-> NilErr]
  ELSE [isNil |-> TRUE, articles |-> <<>>, err |-> NilErr]

\* the loop condition
ProcessLoop ==
  /\ paPc = "loop"
  /\ paPc' = IF ProcessLoopAgain(paNb, paMax) THEN "fetch" ELSE "wait"
  /\ UNCHANGED <<notProcess, paMode, paMax0, paMax, paPage, paNb, paRes,
                 paBatch, paTasks, paCalls, paErrLen, paArticles, paRet,
                 paServed>>

\* query.setPage(page); c.fetchNews(endpoint, query) returns a page;
\* maxResults is lowered, nbArticles += len(res.Articles)
ProcessFetchOk ==
  /\ paPc = "fetch"
  /\ PageAsked(PagedQuery(paPage)) # 0
  /\ LET r == ServerPage(PageAsked(PagedQuery(paPage)))
     IN /\ paRes' = r
        /\ paMax' = ProcessLowerMax(paMax, r.totalResults)
        /\ paNb' = paNb + Len(r.items)
        /\ paServed' = paServed \o r.items
  /\ paPc' = "infos"
  /\ UNCHANGED <<notProcess, paMode, paMax0, paPage, paBatch, paTasks,
                 paCalls, paErrLen, paArticles, paRet>>

\* c.fetchNews returns an error: return err
ProcessFetchFail ==
  /\ paPc = "fetch"
  /\ \E kind \in FailKinds :
       paRet' = [isNil |-> TRUE, articles |-> <<>>, err |-> GenerateFetchErr(kind)]
  /\ paPc' = "returned"
  /\ UNCHANGED <<notProcess, paMode, paMax0, paMax, paPage, paNb, paRes,
                 paBatch, paTasks, paCalls, paErrLen, paArticles, paServed>>

\* batchInfos.Size, .TotalFetched, .TotalResults, .MaxResults are written
ProcessUpdateInfos ==
  /\ paPc = "infos"
  /\ paBatch' = [paBatch EXCEPT !.Size = Len(paRes.items),
                                !.TotalFetched = paNb,
                                !.TotalResults = paRes.totalResults,
                                !.MaxResults = IF paMax = 0 THEN paRes.totalResults
                                               ELSE paMax]
  /\ paPc' = "spawn"
  /\ UNCHANGED <<notProcess, paMode, paMax0, paMax, paPage, paNb, paRes,
                 paTasks, paCalls, paErrLen, paArticles, paRet, paServed>>

\* batchInfos.Num++; wg.Add(1); go func() {...}: the goroutine holds res of
\* this iteration and the variable batchInfos itself
ProcessSpawn ==
  /\ paPc = "spawn"
  /\ paBatch' = [paBatch EXCEPT !.Num = paBatch.Num + 1]
  /\ paTasks' = Append(paTasks, [articles |-> paRes.items, pc |-> "ready",
                                 num |-> paBatch.Num + 1, fetched |-> paNb])
  /\ paPc' = "check"
  /\ UNCHANGED <<notProcess, paMode, paMax0, paMax, paPage, paNb, paRes,
                 paCalls, paErrLen, paArticles, paRet, paServed>>

\* if len(errChan) > 0 { return the error }; then break or page = res.NextPage
ProcessCheck ==
  /\ paPc = "check"
  /\ IF paErrLen > 0
       THEN /\ paErrLen' = paErrLen - 1
            /\ paRet' = ProcessReturn(ActionErr)
            /\ paPc' = "returned"
            /\ UNCHANGED paPage
       ELSE /\ paPc' = IF ProcessBreak(paRes.nextPage, paNb, paMax) THEN "wait" ELSE "loop"
            /\ paPage' = IF ProcessBreak(paRes.nextPage, paNb, paMax) THEN paPage
                         ELSE paRes.nextPage
            /\ UNCHANGED <<paErrLen, paRet>>
  /\ UNCHANGED <<notProcess, paMode, paMax0, paMax, paNb, paRes, paBatch,
                 paTasks, paCalls, paArticles, paServed>>

\* the goroutine of batch i runs action(&res.Articles, batchInfos): it reads
\* batchInfos now.  addArticle appends under the mutex and returns nil; the
\* action of a Process*News caller may return an error.
ProcessAction(i) ==
  /\ paTasks[i].pc = "ready"
  /\ paCalls' = Append(paCalls, [articles |-> paTasks[i].articles,
                                 infos |-> paBatch,
                                 num |-> paTasks[i].num,
                                 fetched |-> paTasks[i].fetched])
  /\ IF paMode = "fetchArticles"
       THEN /\ paArticles' = paArticles \o paTasks[i].articles
            /\ paTasks' = [paTasks EXCEPT ![i].pc = "done"]
       ELSE /\ UNCHANGED paArticles
            /\ \E fails \in BOOLEAN :
                 paTasks' = [paTasks EXCEPT ![i].pc = IF fails THEN "sendErr" ELSE "done"]
  /\ UNCHANGED <<notProcess, paMode, paMax0, paMax, paPc, paPage, paNb,
                 paRes, paBatch, paErrLen, paRet, paServed>>

\* errChan <- err, errChan being buffered; then the deferred wg.Done()
ProcessSendErr(i) ==
  /\ paTasks[i].pc = "sendErr"
  /\ paErrLen < ChanLen(paMax0)
  /\ paErrLen' = paErrLen + 1
  /\ paTasks' = [paTasks EXCEPT ![i].pc = "done"]
  /\ UNCHANGED <<notProcess, paMode, paMax0, paMax, paPc, paPage, paNb,
                 paRes, paBatch, paCalls, paArticles, paRet, paServed>>

\* wg.Wait() returns; the residual errors are looked at; processArticles
\* returns and, under fetchArticles, the articles are trimmed
ProcessWait ==
  /\ paPc = "wait"
  /\ \A i \in 1..Len(paTasks) : paTasks[i].pc = "done"
  /\ paRet' = ProcessReturn(IF paErrLen > 0 THEN ActionErr ELSE NilErr)
  /\ paErrLen' = IF paErrLen > 0 THEN paErrLen - 1 ELSE paErrLen
  /\ paPc' = "returned"
  /\ UNCHANGED <<notProcess, paMode, paMax0, paMax, paPage, paNb, paRes,
                 paBatch, paTasks, paCalls, paArticles, paServed>>

ProcessNext ==
  \/ ProcessLoop
  \/ ProcessFetchOk
  \/ ProcessFetchFail
  \/ ProcessUpdateInfos
  \/ ProcessSpawn
  \/ ProcessCheck
  \/ \E i \in 1..Len(paTasks) : ProcessAction(i)
  \/ \E i \in 1..Len(paTasks) : ProcessSendErr(i)
  \/ ProcessWait

SpecProcess == ProcessInit /\ [][ProcessNext]_vars

\* the first n elements of s, all of s when n is 0 (no cap) or too large
FirstOf(s, n) == IF n = 0 \/ n >= Len(s) THEN s ELSE SubSeq(s, 1, n)

\* C24: fetchArticles returns the articles in server order (page by page,
\* each page in its own order), truncated to the first maxResults of that
\* order, under every scheduling of the per-batch goroutines.
C24_ServerOrderKept ==
  (paMode = "fetchArticles" /\ paPc = "returned" /\ paRet.err = NilErr)
  => paRet.articles = FirstOf(paServed, paMax0)

\* C25: every invocation of the action receives the BatchInfos of the batch
\* whose articles it is given: Num is that batch's ordinal, Size the number
\* of articles passed, TotalFetched the count up to and including that batch.
C25_InfosOfOwnBatch ==
  \A k \in 1..Len(paCalls) :
    /\ paCalls[k].infos.Num = paCalls[k].num
    /\ paCalls[k].infos.Size = Len(paCalls[k].articles)
    /\ paCalls[k].infos.TotalFetched = paCalls[k].fetched

\* =================================================================
\* Stream under fair scheduling
\* =================================================================
\* the steps the producer goroutine takes without any consumer: the return
\* of a fetch (the transport ends a request whose context is cancelled),
\* the ctx.Done() case of the select, the tail of the loop, the deferred
\* closes.  The hand-over of an article (StreamSend) needs a receiver and
\* is not among them.
ProducerStep ==
  \/ StreamFetchCall
  \/ StreamFetchOk
  \/ StreamFetchFail
  \/ StreamCtxDone
  \/ StreamEndOfPage
  \/ StreamCloseErrChan
  \/ StreamCloseOut

\* a goroutine that can run is run in the end; nothing is assumed of the
\* consumer
SpecLive == Init /\ [][Next]_vars /\ WF_vars(ProducerStep)

BothClosed == errCloses = 1 /\ outCloses = 1

\* C26: once the context is cancelled, the producer goroutine eventually
\* closes both channels even if no consumer ever receives from the article
\* channel again (in particular after Get has returned on the cap).
C26_CancelEventuallyCloses == ctxDone ~> BothClosed

\* Get returned on the cap while the producer was offering the next article
C26_Witness ==
  /\ mode = "get" /\ gpc = "returned" /\ ret.err = NilErr
  /\ maxResults > 0 /\ Len(ret.articles) = maxResults
  /\ ctxDone /\ exitWhy = "ctxDone" /\ pc = "done" /\ BothClosed

\* =================================================================
\* Stream: what ends the pagination
\* =================================================================
\* no fetch failed and the producer did not leave on ctx.Done()
NoErrorNoCancel == failed = NilErr /\ exitWhy \notin {"fetchErr", "ctxDone"}

ProducerStopped == pc \in {"closeErr", "closeOut", "done"}

\* C27 (as stated): in a run with no cancellation and no error, the engine
\* stops requesting pages only after a response whose nextPage is empty; a
\* response with a non-empty nextPage is always followed by a request for
\* that page.
C27_OnlyEmptyNextPageStops ==
  (NoErrorNoCancel /\ ProducerStopped) => res.nextPage = ""

\* C27 (amended): in a run with no cancellation and no error, the engine
\* stops requesting pages only after a response whose nextPage is empty or
\* after which the number of articles emitted equals the reported
\* totalResults; a response with a non-empty nextPage that leaves the count
\* different from totalResults is followed by a request for that page.
C27_EmptyNextPageOrTotalStops ==
  NoErrorNoCancel
  => /\ ProducerStopped
          => /\ res.status = "success"
             /\ res.nextPage = "" \/ articlesCount = res.totalResults
             /\ Len(requests) = Len(responses)
     /\ \A n \in 1..Len(responses) :
          (responses[n].nextPage # "" /\ (n < Len(responses) \/ ProducerStopped))
          => \/ /\ n < Len(requests)
                /\ requests[n + 1]["page"] = responses[n].nextPage
             \/ /\ n = Len(responses)
                /\ articlesCount = res.totalResults

\* a run of three pages, each followed, ended by the empty nextPage
C27_Witness ==
  /\ NoErrorNoCancel /\ ~ctxDone /\ pc = "done" /\ exitWhy = "lastPage"
  /\ Len(requests) = 3 /\ Len(responses) = 3
  /\ responses[2].nextPage # "" /\ res.nextPage = ""

\* the entries of a parameter map other than the continuation token
WithoutPage(params) == [k \in DOMAIN params \ {"page"} |-> params[k]]

\* C28: between two page requests of one retrieval the engine changes only
\* the page entry of the request parameters; every other parameter sent on
\* request N+1 equals the one sent on request 1.
C28_OnlyPageChanges ==
  /\ \A n \in 1..Len(requests) : WithoutPage(requests[n]) = WithoutPage(requests[1])
  /\ WithoutPage(reqParams) = newRequestParams(query)

C28_Witness ==
  /\ Len(requests) = 3 /\ query # ""
  /\ requests[1] = newRequestParams(query) /\ "q" \in DOMAIN requests[3]
  /\ requests[2]["page"] # requests[3]["page"]

\* =================================================================
\* SourceRequest builder
\* =================================================================
\* NewSourceRequest: params is an empty map
BuilderInit ==
  /\ RequestIdle
  /\ DecodeIdle
  /\ ValidateIdle
  /\ OptionsIdle
  /\ LimitIdle
  /\ SourcesIdle
  /\ ArticlesIdle
  /\ GenerateIdle
  /\ ProcessIdle
  /\ StreamIdle
  /\ sbP = NoParams /\ sbApplied = 0 /\ sbLast = NoBuild

BuildWithCountry ==
  /\ sbApplied < MaxBuilds
  /\ \E c \in BuilderArgs("country") :
       /\ sbP' = WithCountry(sbP, c)
       /\ sbLast' = [key |-> "country", arg |-> c, before |-> sbP]
  /\ sbApplied' = sbApplied + 1
  /\ UNCHANGED notBuilder

BuildWithCategory ==
  /\ sbApplied < MaxBuilds
  /\ \E c \in BuilderArgs("category") :
       /\ sbP' = WithCategory(sbP, c)
       /\ sbLast' = [key |-> "category", arg |-> c, before |-> sbP]
  /\ sbApplied' = sbApplied + 1
  /\ UNCHANGED notBuilder

BuildWithLanguage ==
  /\ sbApplied < MaxBuilds
  /\ \E c \in BuilderArgs("language") :
       /\ sbP' = WithLanguage(sbP, c)
       /\ sbLast' = [key |-> "language", arg |-> c, before |-> sbP]
  /\ sbApplied' = sbApplied + 1
  /\ UNCHANGED notBuilder

BuilderNext ==
  \/ BuildWithCountry
  \/ BuildWithCategory
  \/ BuildWithLanguage

SpecBuilder == BuilderInit /\ [][BuilderNext]_vars

InList(key, value) == \E i \in 1..Len(AllowedList(key)) : AllowedList(key)[i] = value

\* C29: WithCountry(c), WithCategory(c) and WithLanguage(c) set the
\* corresponding parameter to exactly c when c is in the allow-list, and
\* leave the parameters unchanged when c is empty or not in the allow-list.
C29_SetsExactlyAllowed ==
  sbApplied > 0
  => IF InList(sbLast.key, sbLast.arg)
       THEN sbP = SetParam(sbLast.before, sbLast.key, sbLast.arg)
       ELSE sbP = sbLast.before

\* =================================================================
\* NewsdataClient.StreamArticles / GetArticles (part_012), called twice
\* with the same request value
\* =================================================================
RequestInit ==
  /\ DecodeIdle
  /\ ValidateIdle
  /\ OptionsIdle
  /\ LimitIdle
  /\ SourcesIdle
  /\ ArticlesIdle
  /\ GenerateIdle
  /\ ProcessIdle
  /\ BuilderIdle
  /\ sizes \in Layouts
  /\ totalResults \in 0..(SumSeq(sizes) + 1)
  /\ EngineIdle
  /\ arQuery \in Queries
  /\ arMax0 \in 0..(MaxItems + 1)
  /\ arParams = NewArticleRequest(arQuery)
  /\ arRun = 1 /\ arPc = "fetch" /\ arGpc = "select" /\ arMax = arMax0
  /\ arPage = "" /\ arIndex = 0 /\ arRes = NoRes /\ arIdx = 0 /\ arErr = NilErr
  /\ arNreq = 0 /\ arArticles = <<>> /\ arRets = <<>> /\ arFirst = <<>>

\* the page is written into req.params, and c.fetchNews(req) sends the request
RequestFetchCall ==
  /\ arPc = "fetch"
  /\ arNreq < MaxRequests
  /\ arParams' = WithPageOf(arParams, arPage)
  /\ arFirst' = IF arNreq = 0 THEN Append(arFirst, WithPageOf(arParams, arPage))
                ELSE arFirst
  /\ arNreq' = arNreq + 1
  /\ arPc' = "inflight"
  /\ UNCHANGED <<notRequest, arQuery, arMax0, arRun, arMax, arPage, arIndex,
                 arRes, arIdx, arErr, arGpc, arArticles, arRets>>

\* fetchNews returns a decoded page; maxResults 0 becomes res.TotalResults
RequestFetchOk ==
  /\ arPc = "inflight"
  /\ PageAsked(arParams) # 0
  /\ LET r == ServerPage(PageAsked(arParams))
     IN /\ arRes' = r
        /\ arMax' = IF arMax = 0 THEN r.totalResults ELSE arMax
        /\ arIdx' = 1
        /\ arPc' = IF Len(r.items) = 0 THEN "endpage" ELSE "item"
  /\ UNCHANGED <<notRequest, arQuery, arMax0, arParams, arRun, arPage,
                 arIndex, arErr, arNreq, arGpc, arArticles, arRets, arFirst>>

\* fetchNews returns an error
RequestFetchFail ==
  /\ arPc = "inflight"
  /\ \E kind \in FailKinds : arErr' = RequestFetchErr(kind)
  /\ arPc' = "sendErr"
  /\ UNCHANGED <<notRequest, arQuery, arMax0, arParams, arRun, arMax, arPage,
                 arIndex, arRes, arIdx, arNreq, arGpc, arArticles, arRets,
                 arFirst>>

\* errChan <- err meets the select of GetArticles, which returns (nil, err)
RequestSendErr ==
  /\ arPc = "sendErr"
  /\ arGpc = "select"
  /\ arRets' = Append(arRets, [isNil |-> TRUE, articles |-> <<>>, err |-> arErr])
  /\ arGpc' = "returned"
  /\ arPc' = "close"
  /\ UNCHANGED <<notRequest, arQuery, arMax0, arParams, arRun, arMax, arPage,
                 arIndex, arRes, arIdx, arErr, arNreq, arArticles, arFirst>>

\* index < maxResults: out <- article meets the select of GetArticles
RequestSend ==
  /\ arPc = "item"
  /\ arIndex < arMax
  /\ arGpc = "select"
  /\ arArticles' = Append(arArticles, RangeArticle(arRes, arIdx))
  /\ arIndex' = arIndex + 1
  /\ arIdx' = arIdx + 1
  /\ arPc' = IF arIdx + 1 > Len(arRes.items) THEN "endpage" ELSE "item"
  /\ UNCHANGED <<notRequest, arQuery, arMax0, arParams, arRun, arMax, arPage,
                 arRes, arErr, arNreq, arGpc, arRets, arFirst>>

\* index >= maxResults: return
RequestCapReturn ==
  /\ arPc = "item"
  /\ ~(arIndex < arMax)
  /\ arPc' = "close"
  /\ UNCHANGED <<notRequest, arQuery, arMax0, arParams, arRun, arMax, arPage,
                 arIndex, arRes, arIdx, arErr, arNreq, arGpc, arArticles,
                 arRets, arFirst>>

\* page = res.NextPage, and round the loop again
RequestEndOfPage ==
  /\ arPc = "endpage"
  /\ arPage' = arRes.nextPage
  /\ arPc' = "fetch"
  /\ UNCHANGED <<notRequest, arQuery, arMax0, arParams, arRun, arMax, arIndex,
                 arRes, arIdx, arErr, arNreq, arGpc, arArticles, arRets,
                 arFirst>>

\* the deferred close(errChan) and close(out)
RequestClose ==
  /\ arPc = "close"
  /\ arPc' = "done"
  /\ UNCHANGED <<notRequest, arQuery, arMax0, arParams, arRun, arMax, arPage,
                 arIndex, arRes, arIdx, arErr, arNreq, arGpc, arArticles,
                 arRets, arFirst>>

\* GetArticles finds the article channel closed: return &articles, nil
RequestOutClosed ==
  /\ arGpc = "select"
  /\ arPc = "done"
  /\ arRets' = Append(arRets, [isNil |-> FALSE, articles |-> arArticles, err |-> NilErr])
  /\ arGpc' = "returned"
  /\ UNCHANGED <<notRequest, arQuery, arMax0, arParams, arRun, arPc, arMax,
                 arPage, arIndex, arRes, arIdx, arErr, arNreq, arArticles,
                 arFirst>>

\* the caller runs GetArticles(req, maxResults) again with the same req
RequestAgain ==
  /\ arRun = 1
  /\ arGpc = "returned"
  /\ arPc = "done"
  /\ arRun' = 2
  /\ arPc' = "fetch" /\ arGpc' = "select" /\ arMax' = arMax0
  /\ arPage' = "" /\ arIndex' = 0 /\ arRes' = NoRes /\ arIdx' = 0
  /\ arErr' = NilErr /\ arNreq' = 0 /\ arArticles' = <<>>
  /\ UNCHANGED <<notRequest, arQuery, arMax0, arParams, arRets, arFirst>>

RequestNext ==
  \/ RequestFetchCall
  \/ RequestFetchOk
  \/ RequestFetchFail
  \/ RequestSendErr
  \/ RequestSend
  \/ RequestCapReturn
  \/ RequestEndOfPage
  \/ RequestClose
  \/ RequestOutClosed
  \/ RequestAgain

SpecRequest == RequestInit /\ [][RequestNext]_vars

\* C30: a retrieval leaves the caller's articleRequest parameters
\* unchanged, so running the same request value twice in a row makes both
\* retrievals start from the first page and return the same items (given
\* the same server state).
C30_RequestLeftUnchanged ==
  /\ arGpc = "returned" => arParams = NewArticleRequest(arQuery)
  /\ \A r \in 1..Len(arFirst) : arFirst[r] = NewArticleRequest(arQuery)
  /\ (Len(arRets) = 2 /\ arRets[1].err = NilErr /\ arRets[2].err = NilErr)
       => arRets[2].articles = arRets[1].articles
====
